---- MODULE Spec2Model ----
(***************************************************************************)
(* Model of the bounded-parallel core of lead-sniper-system:               *)
(*   - ManusCore.map_parallel / _execute_task   (src/src/core/manus_core.py) *)
(*   - HeadlessOrchestrator start / stop / scrape / scrape_parallel          *)
(*                               (src/src/scrapers/headless_orchestrator.py) *)
(*   - AutonomousPipeline run / initialize / _cleanup                        *)
(*                               (src/src/pipeline/autonomous_pipeline.py)   *)
(* Every coroutine is cut at its await points: one action per stretch of    *)
(* code the asyncio event loop runs without suspension.                      *)
(***************************************************************************)
EXTENDS Integers, Sequences, FiniteSets, TLC

\* ------------------------------------------------------------------ bounds
MaxInputs == 2        \* longest input list handed to map_parallel
MaxMapCalls == 2      \* map_parallel calls made on one ManusCore
MaxInstances == 2     \* largest num_instances handed to HeadlessOrchestrator.start
MaxTargets == 2       \* longest target list handed to scrape_parallel
MaxCalls == 3         \* start / stop / scrape / scrape_parallel calls on one orchestrator
MaxWorkers == 2       \* largest config.max_parallel_instances tried for ManusCore.start
MaxTasks == 2         \* tasks put in ManusCore._task_queue
MaxRetries == 3       \* largest PipelineConfig.max_retries tried
MaxRunCalls == 2      \* run() calls made by the caller on one AutonomousPipeline
MaxLeads == 2         \* most leads one scraping stage yields
MaxValidations == 2   \* validate() calls made on one TripleCheckValidator
MaxTicks == 4         \* clock ticks followed on one manus_core.SmartRouter
MaxDetermine == 3     \* determine_target() calls made on one hybrid_sync.SmartRouter
MaxSlots == 5         \* longest ManusCore._workers list followed
MaxAttempts == 3      \* largest retries argument tried for auto_heal and fetch_page
MaxWrapperCalls == 2  \* calls made of one auto_heal wrapper, and of fetch_page
MaxResults == 2       \* distinct values a request can return

\* ------------------------------------------------------- program constants
max_parallel_instances == 1000   \* SystemConfig.max_parallel_instances
worker_cap == 100                \* start(): range(min(max_parallel_instances, 100))
NumStages == 7                   \* run(): stages 1 (scraping) .. 7 (reporting)
default_threshold == 70          \* PipelineConfig.min_confidence_threshold = 0.7, in percent
local_check_interval == 30       \* SmartRouter._local_check_interval, in seconds
tick_seconds == 15               \* seconds between two readings of the clock
default_delay == 5               \* auto_heal(func, retries=3, delay=5), in seconds
default_backoff == 5             \* fetch_page(backoff_factor=0.5), in tenths of a second

None == -1            \* Python None in a field that otherwise holds a number >= 0

VARIABLES
    \* ---- ManusCore and one map_parallel call at a time
    mapPc,            \* "idle" | "running" | "returned" | "error"
    mapCalls,         \* number of map_parallel calls made so far
    inputs,           \* the inputs argument
    raisesAt,         \* indices (1-based) at which func raises
    isCoroutine,      \* asyncio.iscoroutinefunction(func)
    max_concurrent,   \* the max_concurrent argument: [isNone, v]
    semaphore,        \* value of the asyncio.Semaphore of this call
    taskPc,           \* per bounded_task: "none" | "pending" | "running" | "done"
    taskOut,          \* per bounded_task: what the task returned (or raised)
    funcCalls,        \* per index: how often func was invoked in this call
    completed,        \* indices in the order their tasks completed
    final_results,    \* the list map_parallel returned
    metrics,          \* ManusCore._metrics: tasks_processed/succeeded/failed
    opsFinished,      \* executions of func by _execute_task that returned or raised
    \* ---- HeadlessOrchestrator
    instances,        \* keys of self.instances
    instance_pool,    \* self._instance_pool: the queue of available instance ids
    running,          \* self._running
    startPc,          \* start(): "idle" | "initializing" | "started" | "failed"
    num_instances,    \* the num_instances of the latest start()
    initPc,           \* per _init_instance task: "none" | "pending" | "ok" | "failed"
    initFails,        \* ids whose HeadlessInstance.initialize raises
    stopPc,           \* stop(): "idle" | "cleaning" | "stopped" | "failed"
    cleanupPc,        \* per instance: cleanup() "none" | "pending" | "cleaned" | "logged" | "raised"
    calls,            \* [starts, stops, scrapes]: API calls made so far
    scPc,             \* per scrape: "none" | "new" | "sem" | "get" | "op" | "shot" | "ret" | "raised"
    held,             \* per scrape: the instance_id it took from the pool, None if none
    navFails,         \* per scrape: instance.navigate(target.url) returned False
    scOut,            \* per scrape: the ScrapeResult returned, or the exception raised
    parPc,            \* scrape_parallel(): "idle" | "running" | "returned"
    targets,          \* len(targets) of the current scrape_parallel call
    scrapeSem,        \* value of the asyncio.Semaphore of scrape_parallel
    scrape_results,   \* the list scrape_parallel returned
    peak,             \* most instances borrowed at once during the latest scrape_parallel
    scrapeMetrics,    \* HeadlessOrchestrator._metrics
    scrapesFinished,  \* scrape operations (navigate .. extract) that succeeded or failed
    \* ---- ManusCore engine: workers, health monitor, auto-heal daemon
    core_instances,   \* self.config.max_parallel_instances, None until start() first reads it
    coreRunning,      \* self._running
    corePc,           \* "new" | "started" | "stopped": the latest of start() / stop()
    workerPc,         \* per entry of self._workers: "none" | "idle" | "busy" | "cancelled" | "done"
    task_queue,       \* self._task_queue.qsize()
    tasksStarted,     \* tasks a worker took from the queue and handed to _execute_task
    monitorPc,        \* _health_monitor: "none" | "sleeping" | "exited"
    daemonPc,         \* _auto_heal_daemon: "none" | "sleeping" | "exited"
    health_status,    \* self.health_status
    auto_heals,       \* self._metrics['auto_heals']
    \* ---- AutonomousPipeline: run() and its recursive retries
    constructed,      \* AutonomousPipeline.__init__ has run
    auto_retry,       \* self.config.auto_retry
    max_retries,      \* self.config.max_retries
    runPc,            \* stack of run() frames, innermost last: "initialize" | "scraper_start" |
                      \* "components" | "stage" | "except" | "retry" | "cleanup_scraper" |
                      \* "cleanup_core" | "returned"
    resultStage,      \* self.result.stage: 0 INITIALIZATION, 1..NumStages, NumStages + 1 COMPLETE
    errors,           \* len(self.result.errors)
    executions,       \* run() frames entered since the caller's latest run() call
    runCalls,         \* run() calls made by the caller
    runOut,           \* how the caller's latest run() ended: "none" | "result"
    scraperRunning,   \* self.scraper is started and not stopped
    engineRunning,    \* self.manus_core is started and not stopped
    triple_check_enabled,      \* self.config.triple_check_enabled
    min_confidence_threshold,  \* self.config.min_confidence_threshold, in percent
    end_time,         \* self.result.end_time is set
    attemptRaised,    \* the latest attempt of run() left its try block by an exception
    cleanups,         \* _cleanup() calls since the caller's latest run() call
    leads,            \* length of the lead list the running attempt carries between stages
    leads_scraped,    \* self.result.leads_scraped
    leads_validated,  \* self.result.leads_validated
    leads_analyzed,   \* self.result.leads_analyzed
    leads_stored,     \* self.result.leads_stored
    \* ---- TripleCheckValidator and the retention test of _execute_validation
    validation_history,  \* len(self.validation_history)
    validation,       \* the latest result of validate(), with the lead and the threshold it met
    \* ---- manus_core.SmartRouter
    local_primary,    \* self.local_primary
    local_available,  \* self.local_available
    cloud_available,  \* self.cloud_available
    now,              \* datetime.utcnow(), in units of the check interval
    last_local_check, \* self._last_local_check
    localDown,        \* the latest set_local_status call was set_local_status(False)
    routeOut,         \* "unbuilt" before __init__, then how the latest route() ended:
                      \* "none" | "local" | "cloud" | "raised"
    \* ---- hybrid_sync.SmartRouter
    hybridConfig,     \* self.config: local_primary, cloud_fallback
    current_target,   \* self._current_target: "LOCAL" | "CLOUD"
    determined,       \* the latest determine_target() call: what the two checks returned,
                      \* _current_target before it, and how it ended
    \* ---- government_crawler.auto_heal: one wrapper, one call of it at a time
    healPc,           \* "unbuilt" | "ready" | "loop" | "sleep" | "returned" | "raised"
    heal_retries,     \* retries of the closure
    heal_delay,       \* delay of the closure, in seconds
    heal_i,           \* i of the for loop
    healOutcomes,     \* how each invocation of func ended in this call
    healSlept,        \* the arguments of the time.sleep calls of this call
    healOut,          \* what the call returned
    healCalls,        \* calls of the wrapper made so far
    \* ---- UniversalCrawler.fetch_page, one call at a time
    fetchPc,          \* "idle" | "loop" | "sleep" | "returned" | "raised"
    fetch_retries,    \* the retries argument
    backoff_factor,   \* the backoff_factor argument, in tenths of a second
    fetch_attempt,    \* attempt of the for loop
    fetchOutcomes,    \* how each request of this call ended
    fetchSlept,       \* the arguments of the time.sleep calls of this call
    fetchOut,         \* what the call returned
    fetchCalls        \* calls of fetch_page made so far

mapVars == <<mapPc, mapCalls, inputs, raisesAt, isCoroutine, max_concurrent,
             semaphore, taskPc, taskOut, funcCalls, completed, final_results,
             metrics, opsFinished>>

poolVars == <<instances, instance_pool, running, startPc, num_instances, initPc,
              initFails, stopPc, cleanupPc, calls, scPc, held, navFails, scOut, parPc, targets,
              scrapeSem, scrape_results, peak, scrapeMetrics,
              scrapesFinished>>

coreVars == <<core_instances, coreRunning, corePc, workerPc, task_queue, tasksStarted, monitorPc,
              daemonPc, health_status, auto_heals>>

pipeVars == <<constructed, auto_retry, max_retries, runPc, resultStage, errors,
              executions, runCalls, runOut, scraperRunning, engineRunning,
              triple_check_enabled, min_confidence_threshold, end_time, attemptRaised,
              cleanups, leads, leads_scraped, leads_validated, leads_analyzed,
              leads_stored>>

validatorVars == <<validation_history, validation>>

routerVars == <<local_primary, local_available, cloud_available, now, last_local_check,
                localDown, routeOut>>

hybridVars == <<hybridConfig, current_target, determined>>

healVars == <<healPc, heal_retries, heal_delay, heal_i, healOutcomes, healSlept, healOut,
              healCalls>>

fetchVars == <<fetchPc, fetch_retries, backoff_factor, fetch_attempt, fetchOutcomes,
               fetchSlept, fetchOut, fetchCalls>>

crawlerVars == <<healVars, fetchVars>>

auxVars == <<validatorVars, routerVars, hybridVars, crawlerVars>>

vars == <<mapVars, poolVars, coreVars, pipeVars, auxVars>>

\* ------------------------------------------------------------ input domains
\* the mapper never inspects an input (it is passed to func untouched), so one
\* list per length is drawn, with pairwise different elements: <<1, 2, .., n>>
InputLists == {[i \in 1..n |-> i] : n \in 0..MaxInputs}
Indices == 1..MaxInputs
N == Len(inputs)

\* max_concurrent: Optional[int] = None, or any integer the caller passes
MaxConcurrentArgs ==
    {[isNone |-> TRUE, v |-> 0]} \cup {[isNone |-> FALSE, v |-> k] : k \in -1..MaxInputs}

\* ---------------------------------------------------------------- results
NoOut == [kind |-> "none"]

\* func: the operation of the spec's scenario, doubling its numeric input
Func(x) == 2 * x

\* TaskResult(task_id=f"map-{index}", success=True, data=result)
SuccessResult(index, data) ==
    [kind |-> "result", task_id |-> index, success |-> TRUE, data |-> data, error |-> FALSE]

\* TaskResult(task_id=f"map-{index}", success=False, error=str(e))
FailedResultMarkedSuccess(index) ==
    [kind |-> "result", task_id |-> index, success |-> TRUE, data |-> None, error |-> TRUE]
FailedResult(index) ==
    [kind |-> "result", task_id |-> index, success |-> FALSE, data |-> None, error |-> TRUE]

\* max_concurrent = max_concurrent or self.config.max_parallel_instances
EffectiveMaxConcurrent(mc) ==
    IF mc.isNone \/ mc.v = 0 THEN max_parallel_instances ELSE mc.v

\* asyncio.Semaphore(value) raises ValueError when value < 0
SemaphoreValueOk(value) == value >= 0

\* async with semaphore: the task passes only while the counter is positive
SemNeverBlocks(value) == TRUE
SemCanAcquire(value) == value > 0

\* self._metrics['tasks_processed'] += 1; tasks_succeeded / tasks_failed += 1
CountTaskProcessedOnly(m, ok) ==
    [tasks_processed |-> m.tasks_processed + 1,
     tasks_succeeded |-> m.tasks_succeeded,
     tasks_failed    |-> m.tasks_failed + (IF ok THEN 0 ELSE 1)]
CountTask(m, ok) ==
    [tasks_processed |-> m.tasks_processed + 1,
     tasks_succeeded |-> m.tasks_succeeded + (IF ok THEN 1 ELSE 0),
     tasks_failed    |-> m.tasks_failed + (IF ok THEN 0 ELSE 1)]

\* _execute_task returns a TaskResult from the try branch and from the except
\* branch alike: the item is over, no branch runs func again
AfterExecuteRetryFailed(ok) == IF ok THEN "done" ELSE "pending"
AfterExecute(ok) == "done"

\* _execute_task: the try branch returns the success record, the except branch
\* the failure record; index is the 0-based index of bounded_task
ExecuteTaskResult(i) ==
    IF i \in raisesAt THEN FailedResult(i - 1) ELSE SuccessResult(i - 1, Func(inputs[i]))

\* asyncio.gather(*tasks, return_exceptions=True): outcomes in submission order
GatherByCompletion(out, n, order) == [k \in 1..n |-> out[order[k]]]
Gather(out, n, order) == [k \in 1..n |-> out[k]]

\* the loop "Convert exceptions to TaskResult"
ConvertExceptions(results) ==
    [k \in 1..Len(results) |->
        IF results[k].kind = "exc" THEN FailedResult(k - 1) ELSE results[k]]

\* ------------------------------------------------- orchestrator domains
\* instance_id = f"scraper-{i:04d}" for i in range(num_instances)
InstanceIds == 0..(MaxInstances - 1)
\* scrape 0 is a direct scrape() call, scrape t >= 1 the bounded_scrape of the
\* t-th target of scrape_parallel
Direct == 0
Scrapes == 0..MaxTargets
CallsMade == calls.starts + calls.stops + calls.scrapes

\* ScrapeResult(target_id, url, success, ...) built by scrape(); converted is
\* TRUE for the "error-{i}" record scrape_parallel builds from an exception
ScrapeResult(t, ok, conv) ==
    [kind |-> "result", target |-> t, success |-> ok, error |-> ~ok, converted |-> conv]

\* an exception that left scrape() (KeyError of self.instances[instance_id])
ScrapeRaised == [kind |-> "exc"]

\* async with semaphore in bounded_scrape
ScrapeSemKeepsOneBack(value) == value > 1
ScrapeSemCanAcquire(value) == value > 0

\* cleanup(): what becomes of the instance's teardown when a close raises
CleanupOutcomePropagates(fails) == IF fails THEN "raised" ELSE "cleaned"
CleanupOutcome(fails) == IF fails THEN "logged" ELSE "cleaned"

\* await self._instance_pool.put(instance_id)
PoolPutLost(pool, id) == pool
PoolPut(pool, id) == Append(pool, id)

\* self._metrics['total_scrapes'] += 1 and successful_scrapes / failed_scrapes += 1
CountScrapeFailureUncounted(m, ok) ==
    [total_scrapes      |-> m.total_scrapes + 1,
     successful_scrapes |-> m.successful_scrapes + (IF ok THEN 1 ELSE 0),
     failed_scrapes     |-> m.failed_scrapes]
CountScrape(m, ok) ==
    [total_scrapes      |-> m.total_scrapes + 1,
     successful_scrapes |-> m.successful_scrapes + (IF ok THEN 1 ELSE 0),
     failed_scrapes     |-> m.failed_scrapes + (IF ok THEN 0 ELSE 1)]

\* scrape_parallel: gather(..., return_exceptions=True) and the conversion loop
ConvertScrapeExceptionsPadded(out, n) ==
    [k \in 1..MaxTargets |-> IF out[k].kind = "exc" THEN ScrapeResult(k, FALSE, TRUE) ELSE out[k]]
ConvertScrapeExceptions(out, n) ==
    [k \in 1..n |-> IF out[k].kind = "exc" THEN ScrapeResult(k, FALSE, TRUE) ELSE out[k]]

\* a scrape that holds an instance: between the pool get and the pool put
InFlight(t) == scPc[t] \in {"op", "shot"}
Finished(t) == scPc[t] \in {"ret", "raised"}

\* ------------------------------------------------------ engine domains
Workers == 1..MaxSlots
Min(a, b) == IF a < b THEN a ELSE b

\* for i in range(min(self.config.max_parallel_instances, 100))
WorkerCount(mpi) == Min(mpi, worker_cap)

\* "while self._running" at the head of _worker, _health_monitor, _auto_heal_daemon
LoopForever(r) == TRUE
LoopContinues(r) == r

\* sum(1 for w in self._workers if not w.done()) and len(self._workers)
ActiveWorkers(pc) == Cardinality({w \in Workers : pc[w] \in {"idle", "busy", "cancelled"}})
TotalWorkers(pc) == Cardinality({w \in Workers : pc[w] # "none"})

\* _trigger_auto_heal: every done worker is replaced by a new task
RestartDone(pc) == [w \in Workers |-> IF pc[w] = "done" THEN "idle" ELSE pc[w]]

\* ------------------------------------------------------------------- Init
\* ManusCore.__init__
MapInit ==
    /\ mapPc = "idle"
    /\ mapCalls = 0
    /\ inputs = <<>>
    /\ raisesAt = {}
    /\ isCoroutine = TRUE
    /\ max_concurrent = [isNone |-> TRUE, v |-> 0]
    /\ semaphore = 0
    /\ taskPc = [i \in Indices |-> "none"]
    /\ taskOut = [i \in Indices |-> NoOut]
    /\ funcCalls = [i \in Indices |-> 0]
    /\ completed = <<>>
    /\ final_results = <<>>
    /\ metrics = [tasks_processed |-> 0, tasks_succeeded |-> 0, tasks_failed |-> 0]
    /\ opsFinished = 0

\* HeadlessOrchestrator.__init__
PoolInit ==
    /\ instances = {}
    /\ instance_pool = <<>>
    /\ running = FALSE
    /\ startPc = "idle"
    /\ num_instances = 0
    /\ initPc = [i \in InstanceIds |-> "none"]
    /\ initFails = {}
    /\ stopPc = "idle"
    /\ cleanupPc = [i \in InstanceIds |-> "none"]
    /\ calls = [starts |-> 0, stops |-> 0, scrapes |-> 0]
    /\ scPc = [t \in Scrapes |-> "none"]
    /\ held = [t \in Scrapes |-> None]
    /\ navFails = [t \in Scrapes |-> FALSE]
    /\ scOut = [t \in Scrapes |-> NoOut]
    /\ parPc = "idle"
    /\ targets = 0
    /\ scrapeSem = 0
    /\ scrape_results = <<>>
    /\ peak = 0
    /\ scrapeMetrics = [total_scrapes |-> 0, successful_scrapes |-> 0, failed_scrapes |-> 0]
    /\ scrapesFinished = 0

\* ManusCore.__init__: the engine part
CoreInit ==
    /\ core_instances = None
    /\ coreRunning = FALSE
    /\ corePc = "new"
    /\ workerPc = [w \in Workers |-> "none"]
    /\ task_queue = 0
    /\ tasksStarted = 0
    /\ monitorPc = "none"
    /\ daemonPc = "none"
    /\ health_status = "healthy"
    /\ auto_heals = 0

NoValidation == [data_type |-> "none"]

\* hybrid_sync.SmartRouter: what is known of the latest determine_target() call;
\* out is "unbuilt" before __init__, "none" before the first call, "local_checked"
\* and "cloud_checked" during a call, then "LOCAL" | "CLOUD" | "raised"
NoRouter == [out |-> "unbuilt", local_ok |-> FALSE, cloud_ok |-> FALSE,
             before |-> "LOCAL", calls |-> 0]
NoCall == [NoRouter EXCEPT !.out = "none"]

\* before AutonomousPipeline.__init__
PipeInit ==
    /\ constructed = FALSE
    /\ auto_retry = FALSE
    /\ max_retries = 0
    /\ runPc = <<>>
    /\ resultStage = 0
    /\ errors = 0
    /\ executions = 0
    /\ runCalls = 0
    /\ runOut = "none"
    /\ scraperRunning = FALSE
    /\ engineRunning = FALSE
    /\ triple_check_enabled = TRUE
    /\ min_confidence_threshold = default_threshold
    /\ end_time = FALSE
    /\ attemptRaised = FALSE
    /\ cleanups = 0
    /\ leads = 0
    /\ leads_scraped = 0
    /\ leads_validated = 0
    /\ leads_analyzed = 0
    /\ leads_stored = 0

\* TripleCheckValidator.__init__
ValidatorInit ==
    /\ validation_history = 0
    /\ validation = NoValidation

\* before manus_core.SmartRouter.__init__
RouterInit ==
    /\ local_primary = TRUE
    /\ local_available = TRUE
    /\ cloud_available = TRUE
    /\ now = 0
    /\ last_local_check = 0
    /\ localDown = FALSE
    /\ routeOut = "unbuilt"

\* before hybrid_sync.SmartRouter.__init__; the SyncConfig defaults
HybridInit ==
    /\ hybridConfig = [local_primary |-> TRUE, cloud_fallback |-> TRUE]
    /\ current_target = "LOCAL"
    /\ determined = NoRouter

\* before auto_heal(func) is applied; the defaults of its signature
HealInit ==
    /\ healPc = "unbuilt"
    /\ heal_retries = MaxAttempts
    /\ heal_delay = default_delay
    /\ heal_i = 0
    /\ healOutcomes = <<>>
    /\ healSlept = <<>>
    /\ healOut = None
    /\ healCalls = 0

\* a UniversalCrawler on which fetch_page has not been called; the defaults of
\* its signature
FetchInit ==
    /\ fetchPc = "idle"
    /\ fetch_retries = MaxAttempts
    /\ backoff_factor = default_backoff
    /\ fetch_attempt = 0
    /\ fetchOutcomes = <<>>
    /\ fetchSlept = <<>>
    /\ fetchOut = None
    /\ fetchCalls = 0

AuxInit == ValidatorInit /\ RouterInit /\ HybridInit /\ HealInit /\ FetchInit

Init == MapInit /\ PoolInit /\ CoreInit /\ PipeInit /\ AuxInit

\* ------------------------------------------------- ManusCore.map_parallel
\* The call up to "await asyncio.gather": the semaphore is created and one
\* bounded_task per input is scheduled.  A negative value makes
\* asyncio.Semaphore raise before any task exists.
MapParallel(ins, rs, co, mc) ==
    /\ mapPc \in {"idle", "returned", "error"}
    /\ mapCalls < MaxMapCalls
    /\ mapCalls' = mapCalls + 1
    /\ inputs' = ins
    /\ raisesAt' = rs
    /\ isCoroutine' = co
    /\ max_concurrent' = mc
    /\ taskOut' = [i \in Indices |-> NoOut]
    /\ funcCalls' = [i \in Indices |-> 0]
    /\ completed' = <<>>
    /\ final_results' = <<>>
    /\ IF SemaphoreValueOk(EffectiveMaxConcurrent(mc))
       THEN /\ mapPc' = "running"
            /\ semaphore' = EffectiveMaxConcurrent(mc)
            /\ taskPc' = [i \in Indices |-> IF i <= Len(ins) THEN "pending" ELSE "none"]
       ELSE /\ mapPc' = "error"
            /\ semaphore' = 0
            /\ taskPc' = [i \in Indices |-> "none"]
    /\ UNCHANGED <<metrics, opsFinished, poolVars, coreVars, pipeVars, auxVars>>

\* bounded_task enters "async with semaphore" and _execute_task awaits func
BoundedTaskStart(i) ==
    /\ mapPc = "running"
    /\ taskPc[i] = "pending"
    /\ isCoroutine
    /\ SemCanAcquire(semaphore)
    /\ semaphore' = semaphore - 1
    /\ taskPc' = [taskPc EXCEPT ![i] = "running"]
    /\ funcCalls' = [funcCalls EXCEPT ![i] = @ + 1]
    /\ UNCHANGED <<mapPc, mapCalls, inputs, raisesAt, isCoroutine, max_concurrent,
                   taskOut, completed, final_results, metrics, opsFinished, poolVars, coreVars, pipeVars, auxVars>>

\* func returns or raises; _execute_task counts it and builds the TaskResult,
\* the semaphore is released on leaving "async with"
ExecuteTaskFinish(i) ==
    /\ mapPc = "running"
    /\ taskPc[i] = "running"
    /\ metrics' = CountTask(metrics, i \notin raisesAt)
    /\ opsFinished' = opsFinished + 1
    /\ taskOut' = [taskOut EXCEPT ![i] = ExecuteTaskResult(i)]
    /\ semaphore' = semaphore + 1
    /\ taskPc' = [taskPc EXCEPT ![i] = AfterExecute(i \notin raisesAt)]
    /\ completed' = Append(completed, i)
    /\ UNCHANGED <<mapPc, mapCalls, inputs, raisesAt, isCoroutine, max_concurrent,
                   funcCalls, final_results, poolVars, coreVars, pipeVars, auxVars>>

\* a plain (non-coroutine) func runs inside _execute_task without suspension:
\* acquire, call, count, release are one step of the event loop
BoundedTaskSync(i) ==
    /\ mapPc = "running"
    /\ taskPc[i] = "pending"
    /\ ~isCoroutine
    /\ SemCanAcquire(semaphore)
    /\ funcCalls' = [funcCalls EXCEPT ![i] = @ + 1]
    /\ metrics' = CountTask(metrics, i \notin raisesAt)
    /\ opsFinished' = opsFinished + 1
    /\ taskOut' = [taskOut EXCEPT ![i] = ExecuteTaskResult(i)]
    /\ taskPc' = [taskPc EXCEPT ![i] = AfterExecute(i \notin raisesAt)]
    /\ completed' = Append(completed, i)
    /\ UNCHANGED <<mapPc, mapCalls, inputs, raisesAt, isCoroutine, max_concurrent,
                   semaphore, final_results, poolVars, coreVars, pipeVars, auxVars>>

\* gather completes once every task is done; exceptions are converted and the
\* list is returned
MapReturn ==
    /\ mapPc = "running"
    /\ \A i \in 1..N : taskPc[i] = "done"
    /\ final_results' = ConvertExceptions(Gather(taskOut, N, completed))
    /\ mapPc' = "returned"
    /\ UNCHANGED <<mapCalls, inputs, raisesAt, isCoroutine, max_concurrent, semaphore,
                   taskPc, taskOut, funcCalls, completed, metrics, opsFinished, poolVars, coreVars, pipeVars, auxVars>>

MapNext ==
    \/ \E ins \in InputLists, co \in BOOLEAN, mc \in MaxConcurrentArgs :
         \E rs \in SUBSET (1..Len(ins)) : MapParallel(ins, rs, co, mc)
    \/ \E i \in Indices : BoundedTaskStart(i)
    \/ \E i \in Indices : ExecuteTaskFinish(i)
    \/ \E i \in Indices : BoundedTaskSync(i)
    \/ MapReturn

\* ---------------------------------------------------- HeadlessOrchestrator
startVars == <<startPc, num_instances, initPc, initFails>>
taskVars == <<scPc, held, navFails, scOut>>
parVars == <<parPc, targets, scrapeSem, scrape_results, peak>>

\* start(num_instances) up to "await asyncio.gather(*init_tasks)": one
\* _init_instance task per id scraper-0000 .. scraper-(n-1), whatever the pool
\* and the instance table already hold
Start(n, fails) ==
    /\ CallsMade < MaxCalls
    /\ startPc # "initializing"
    /\ stopPc # "cleaning"
    /\ \A i \in InstanceIds : initPc[i] # "pending"
    /\ running' = TRUE
    /\ startPc' = "initializing"
    /\ num_instances' = n
    /\ initPc' = [i \in InstanceIds |-> IF i < n THEN "pending" ELSE "none"]
    /\ initFails' = fails
    /\ calls' = [calls EXCEPT !.starts = @ + 1]
    /\ UNCHANGED <<instances, instance_pool, stopPc, cleanupPc, taskVars, parVars, scrapeMetrics, scrapesFinished,
                   mapVars, coreVars, pipeVars, auxVars>>

\* _init_instance: instance.initialize() returned, the instance is entered in
\* the table and its id put in the pool
InitInstance(i) ==
    /\ initPc[i] = "pending"
    /\ i \notin initFails
    /\ instances' = instances \cup {i}
    /\ instance_pool' = PoolPut(instance_pool, i)
    /\ initPc' = [initPc EXCEPT ![i] = "ok"]
    /\ UNCHANGED <<running, startPc, num_instances, initFails, stopPc, cleanupPc, calls, taskVars,
                   parVars, scrapeMetrics, scrapesFinished, mapVars, coreVars, pipeVars, auxVars>>

\* _init_instance: instance.initialize() raised (anything but ImportError);
\* the exception leaves _init_instance before the table and the pool are touched
InitInstanceRaise(i) ==
    /\ initPc[i] = "pending"
    /\ i \in initFails
    /\ initPc' = [initPc EXCEPT ![i] = "failed"]
    /\ UNCHANGED <<instances, instance_pool, running, startPc, num_instances, initFails,
                   stopPc, cleanupPc, calls, taskVars, parVars, scrapeMetrics, scrapesFinished, mapVars, coreVars, pipeVars, auxVars>>

\* gather(*init_tasks) without return_exceptions: the first exception is
\* raised into start(), which has no handler; the other tasks keep running
StartRaise ==
    /\ startPc = "initializing"
    /\ \E i \in InstanceIds : initPc[i] = "failed"
    /\ startPc' = "failed"
    /\ UNCHANGED <<instances, instance_pool, running, num_instances, initPc, initFails,
                   stopPc, cleanupPc, calls, taskVars, parVars, scrapeMetrics, scrapesFinished, mapVars, coreVars, pipeVars, auxVars>>

\* gather(*init_tasks) completed: start() returns
StartReturn ==
    /\ startPc = "initializing"
    /\ \A i \in InstanceIds : i < num_instances => initPc[i] = "ok"
    /\ startPc' = "started"
    /\ UNCHANGED <<instances, instance_pool, running, num_instances, initPc, initFails,
                   stopPc, cleanupPc, calls, taskVars, parVars, scrapeMetrics, scrapesFinished, mapVars, coreVars, pipeVars, auxVars>>

\* stop() up to "await asyncio.gather(*cleanup_tasks)": one cleanup() per
\* instance in the table
Stop ==
    /\ CallsMade < MaxCalls
    /\ stopPc # "cleaning"
    /\ startPc # "initializing"
    /\ running' = FALSE
    /\ stopPc' = "cleaning"
    /\ cleanupPc' = [i \in InstanceIds |-> IF i \in instances THEN "pending" ELSE cleanupPc[i]]
    /\ calls' = [calls EXCEPT !.stops = @ + 1]
    /\ UNCHANGED <<instances, instance_pool, startVars, taskVars, parVars, scrapeMetrics, scrapesFinished,
                   mapVars, coreVars, pipeVars, auxVars>>

\* HeadlessInstance.cleanup: page, context, browser and playwright are closed in
\* turn; an error of any close is caught and logged (except Exception)
Cleanup(i, fails) ==
    /\ stopPc = "cleaning"
    /\ cleanupPc[i] = "pending"
    /\ cleanupPc' = [cleanupPc EXCEPT ![i] = CleanupOutcome(fails)]
    /\ UNCHANGED <<instances, instance_pool, running, startVars, stopPc, calls, taskVars,
                   parVars, scrapeMetrics, scrapesFinished, mapVars, coreVars, pipeVars, auxVars>>

\* gather(*cleanup_tasks) is over: an exception of a cleanup would be raised
\* into stop(); else self.instances.clear().  The queue of ids is left as it is.
StopReturn ==
    /\ stopPc = "cleaning"
    /\ \A i \in InstanceIds : cleanupPc[i] # "pending"
    /\ IF \E i \in InstanceIds : cleanupPc[i] = "raised"
       THEN stopPc' = "failed" /\ UNCHANGED instances
       ELSE stopPc' = "stopped" /\ instances' = {}
    /\ UNCHANGED <<instance_pool, running, startVars, cleanupPc, calls, taskVars, parVars,
                   scrapeMetrics, scrapesFinished, mapVars, coreVars, pipeVars, auxVars>>

\* leaving "async with semaphore" (bounded_scrape only) releases the slot
SemAfterExit(t, sem) == IF t = Direct THEN sem ELSE sem + 1

\* what the first stretch of a scrape works on
ScrapeState ==
    [pool |-> instance_pool, sem |-> scrapeSem, pc |-> scPc, held |-> held, out |-> scOut]

\* instance_id = await self._instance_pool.get(); instance = self.instances[instance_id]
\* asyncio.Queue.get does not suspend while the queue holds an item.  The
\* lookup sits before the try block: when the id is not in the table, KeyError
\* leaves scrape() and no finally puts the id back.  st.sem is the semaphore
\* value once scrape t is inside "async with".  The locals of an earlier scrape
\* in the same slot (held, scOut) are gone.
TakeInstance(st, t) ==
    IF st.pool = <<>>
    THEN [st EXCEPT !.pc[t] = "get", !.held[t] = None, !.out[t] = NoOut]
    ELSE IF Head(st.pool) \in instances
         THEN [st EXCEPT !.pool = Tail(@), !.held[t] = Head(st.pool),
                         !.pc[t] = "op", !.out[t] = NoOut]
         ELSE [st EXCEPT !.pool = Tail(@), !.held[t] = Head(st.pool),
                         !.pc[t] = "raised", !.out[t] = ScrapeRaised,
                         !.sem = SemAfterExit(t, @)]

\* the first stretch of bounded_scrape t: with a free slot it enters
\* "async with semaphore" and runs scrape up to its first suspension, without
\* one it waits at the semaphore
FirstRun(st, t) ==
    IF ScrapeSemCanAcquire(st.sem)
    THEN TakeInstance([st EXCEPT !.sem = @ - 1], t)
    ELSE [st EXCEPT !.pc[t] = "sem"]

\* gather() schedules the bounded_scrapes one after the other (call_soon), so
\* the event loop runs their first stretches in submission order with nothing
\* in between
RECURSIVE BurstFrom(_, _, _)
BurstFrom(st, t, n) == IF t > n THEN st ELSE BurstFrom(FirstRun(st, t), t + 1, n)

\* instances borrowed at once, and the most seen during a scrape_parallel call
Borrowed(pc) == Cardinality({t \in Scrapes : pc[t] \in {"op", "shot"}})
PeakAfter(pc) == IF parPc = "running" /\ Borrowed(pc) > peak THEN Borrowed(pc) ELSE peak

Install(st) ==
    /\ instance_pool' = st.pool
    /\ scrapeSem' = st.sem
    /\ scPc' = st.pc
    /\ held' = st.held
    /\ scOut' = st.out
    /\ peak' = PeakAfter(st.pc)

PoolGet(t, sem) == Install(TakeInstance([ScrapeState EXCEPT !.sem = sem], t))

\* a direct scrape(target) call, up to its first suspension: at the pool get
\* when the queue is empty, else inside navigate
Scrape ==
    /\ CallsMade < MaxCalls
    /\ scPc[Direct] \in {"none", "ret", "raised"}
    /\ navFails' = [navFails EXCEPT ![Direct] = FALSE]
    /\ calls' = [calls EXCEPT !.scrapes = @ + 1]
    /\ PoolGet(Direct, scrapeSem)
    /\ UNCHANGED <<instances, running, startVars, stopPc, cleanupPc, parPc, targets, scrape_results,
                   scrapeMetrics, scrapesFinished, mapVars, coreVars, pipeVars, auxVars>>

\* scrape_parallel(targets) up to "await asyncio.gather": the semaphore gets
\* len(self.instances) slots and one bounded_scrape per target is created
ScrapeParallel(n) ==
    /\ CallsMade < MaxCalls
    /\ parPc \in {"idle", "returned"}
    /\ parPc' = "running"
    /\ targets' = n
    /\ scrapeSem' = Cardinality(instances)
    /\ scrape_results' = <<>>
    /\ peak' = Borrowed(scPc)
    /\ scPc' = [t \in Scrapes |-> IF t = Direct THEN scPc[t]
                                  ELSE IF t <= n THEN "new" ELSE "none"]
    /\ held' = [t \in Scrapes |-> IF t = Direct THEN held[t] ELSE None]
    /\ navFails' = [t \in Scrapes |-> IF t = Direct THEN navFails[t] ELSE FALSE]
    /\ scOut' = [t \in Scrapes |-> IF t = Direct THEN scOut[t] ELSE NoOut]
    /\ calls' = [calls EXCEPT !.scrapes = @ + 1]
    /\ UNCHANGED <<instances, instance_pool, running, startVars, stopPc, cleanupPc, scrapeMetrics, scrapesFinished,
                   mapVars, coreVars, pipeVars, auxVars>>

\* the bounded_scrapes of the call run their first stretches
BoundedScrapeBurst ==
    /\ parPc = "running"
    /\ targets >= 1
    /\ scPc[1] = "new"
    /\ Install(BurstFrom(ScrapeState, 1, targets))
    /\ UNCHANGED <<instances, running, startVars, stopPc, cleanupPc, calls, navFails, parPc,
                   targets, scrape_results, scrapeMetrics, scrapesFinished, mapVars, coreVars, pipeVars, auxVars>>

\* a bounded_scrape that waited at the semaphore gets a slot: it enters
\* "async with semaphore" and runs scrape(target) up to its first suspension
BoundedScrapeEnter(t) ==
    /\ t # Direct
    /\ scPc[t] = "sem"
    /\ ScrapeSemCanAcquire(scrapeSem)
    /\ PoolGet(t, scrapeSem - 1)
    /\ UNCHANGED <<instances, running, startVars, stopPc, cleanupPc, calls, navFails, parPc, targets,
                   scrape_results, scrapeMetrics, scrapesFinished, mapVars, coreVars, pipeVars, auxVars>>

\* a scrape suspended in self._instance_pool.get() resumes once the queue
\* holds an item
ScrapeGet(t) ==
    /\ scPc[t] = "get"
    /\ instance_pool # <<>>
    /\ PoolGet(t, scrapeSem)
    /\ UNCHANGED <<instances, running, startVars, stopPc, cleanupPc, calls, navFails, parPc, targets,
                   scrape_results, scrapeMetrics, scrapesFinished, mapVars, coreVars, pipeVars, auxVars>>

\* navigate and extract succeeded: count, build the result, and (finally) put
\* the id back; no await separates these
ScrapeSucceed(t) ==
    /\ scPc[t] = "op"
    /\ scrapeMetrics' = CountScrape(scrapeMetrics, TRUE)
    /\ scrapesFinished' = scrapesFinished + 1
    /\ scOut' = [scOut EXCEPT ![t] = ScrapeResult(t, TRUE, FALSE)]
    /\ instance_pool' = PoolPut(instance_pool, held[t])
    /\ held' = [held EXCEPT ![t] = None]
    /\ scPc' = [scPc EXCEPT ![t] = "ret"]
    /\ scrapeSem' = SemAfterExit(t, scrapeSem)
    /\ UNCHANGED <<instances, running, startVars, stopPc, cleanupPc, calls, navFails, parPc, targets,
                   scrape_results, peak, mapVars, coreVars, pipeVars, auxVars>>

\* navigate returned False: "Navigation failed" is raised and caught, the
\* failure is counted, and the handler awaits instance.screenshot
ScrapeFail(t) ==
    /\ scPc[t] = "op"
    /\ navFails' = [navFails EXCEPT ![t] = TRUE]
    /\ scrapeMetrics' = CountScrape(scrapeMetrics, FALSE)
    /\ scrapesFinished' = scrapesFinished + 1
    /\ scPc' = [scPc EXCEPT ![t] = "shot"]
    /\ UNCHANGED <<instances, instance_pool, running, startVars, stopPc, cleanupPc, calls, held,
                   scOut, parVars, mapVars, coreVars, pipeVars, auxVars>>

\* after the screenshot: the failed result is built and finally puts the id back
ScrapeFinally(t) ==
    /\ scPc[t] = "shot"
    /\ scOut' = [scOut EXCEPT ![t] = ScrapeResult(t, FALSE, FALSE)]
    /\ instance_pool' = PoolPut(instance_pool, held[t])
    /\ held' = [held EXCEPT ![t] = None]
    /\ scPc' = [scPc EXCEPT ![t] = "ret"]
    /\ scrapeSem' = SemAfterExit(t, scrapeSem)
    /\ UNCHANGED <<instances, running, startVars, stopPc, cleanupPc, calls, navFails, parPc, targets,
                   scrape_results, peak, scrapeMetrics, scrapesFinished, mapVars, coreVars, pipeVars, auxVars>>

\* gather completed: exceptions are converted and the list is returned
ScrapeParallelReturn ==
    /\ parPc = "running"
    /\ \A t \in 1..targets : Finished(t)
    /\ scrape_results' = ConvertScrapeExceptions(scOut, targets)
    /\ parPc' = "returned"
    /\ UNCHANGED <<instances, instance_pool, running, startVars, stopPc, cleanupPc, calls,
                   taskVars, targets, scrapeSem, peak, scrapeMetrics, scrapesFinished, mapVars, coreVars, pipeVars, auxVars>>

PoolNext ==
    \/ \E n \in 1..MaxInstances : \E fails \in SUBSET (0..(n - 1)) : Start(n, fails)
    \/ \E i \in InstanceIds : InitInstance(i)
    \/ \E i \in InstanceIds : InitInstanceRaise(i)
    \/ StartRaise
    \/ StartReturn
    \/ Stop
    \/ \E i \in InstanceIds, fails \in BOOLEAN : Cleanup(i, fails)
    \/ StopReturn
    \/ Scrape
    \/ \E n \in 0..MaxTargets : ScrapeParallel(n)
    \/ BoundedScrapeBurst
    \/ \E t \in Scrapes : BoundedScrapeEnter(t)
    \/ \E t \in Scrapes : ScrapeGet(t)
    \/ \E t \in Scrapes : ScrapeSucceed(t)
    \/ \E t \in Scrapes : ScrapeFail(t)
    \/ \E t \in Scrapes : ScrapeFinally(t)
    \/ ScrapeParallelReturn

\* ------------------------------------------------------- ManusCore engine
mapCallVars == <<mapPc, mapCalls, inputs, raisesAt, isCoroutine, max_concurrent,
                 semaphore, taskPc, taskOut, funcCalls, completed, final_results>>

\* start(): range(count) new workers are appended to self._workers, whatever the
\* list already holds, and a health monitor and (auto_heal_enabled) an
\* auto-heal daemon are created; nothing awaits.  A monitor or daemon left from
\* an earlier start() runs the same loop on the same fields, so one of each
\* stands for all of them.
CoreStart(mpi) ==
    /\ core_instances \in {None, mpi}
    /\ TotalWorkers(workerPc) + WorkerCount(mpi) <= MaxSlots
    /\ core_instances' = mpi
    /\ coreRunning' = TRUE
    /\ corePc' = "started"
    /\ workerPc' = [w \in Workers |->
                      IF /\ w > TotalWorkers(workerPc)
                         /\ w <= TotalWorkers(workerPc) + WorkerCount(mpi)
                      THEN "idle" ELSE workerPc[w]]
    /\ monitorPc' = "sleeping"
    /\ daemonPc' = "sleeping"
    /\ UNCHANGED <<task_queue, tasksStarted, health_status, auto_heals, mapVars, poolVars, pipeVars, auxVars>>

\* the first start() of an engine
CoreStartOnce(mpi) == corePc = "new" /\ CoreStart(mpi)

\* a task dict is put in self._task_queue (by a client of the engine)
PutTask ==
    /\ task_queue + tasksStarted < MaxTasks
    /\ task_queue' = task_queue + 1
    /\ UNCHANGED <<core_instances, coreRunning, corePc, workerPc, tasksStarted, monitorPc, daemonPc,
                   health_status, auto_heals, mapVars, poolVars, pipeVars, auxVars>>

\* _worker: wait_for(self._task_queue.get()) delivers a task and _execute_task
\* is entered.  A coroutine function suspends the worker; a plain function runs
\* to its end, the task is counted, the result queued, and the loop head sends
\* the worker back to the queue.
WorkerGet(w, co, ok) ==
    /\ workerPc[w] = "idle"
    /\ task_queue > 0
    /\ task_queue' = task_queue - 1
    /\ tasksStarted' = tasksStarted + 1
    /\ IF co
       THEN /\ workerPc' = [workerPc EXCEPT ![w] = "busy"]
            /\ UNCHANGED <<metrics, opsFinished>>
       ELSE /\ workerPc' = [workerPc EXCEPT ![w] =
                              IF LoopContinues(coreRunning) THEN "idle" ELSE "done"]
            /\ metrics' = CountTask(metrics, ok)
            /\ opsFinished' = opsFinished + 1
    /\ UNCHANGED <<core_instances, coreRunning, corePc, monitorPc, daemonPc, health_status, auto_heals,
                   mapCallVars, poolVars, pipeVars, auxVars>>

\* the awaited func returns or raises: _execute_task counts the task, the
\* result is queued, and the loop head is evaluated
WorkerFinish(w, ok) ==
    /\ workerPc[w] = "busy"
    /\ metrics' = CountTask(metrics, ok)
    /\ opsFinished' = opsFinished + 1
    /\ workerPc' = [workerPc EXCEPT ![w] =
                      IF LoopContinues(coreRunning) THEN "idle" ELSE "done"]
    /\ UNCHANGED <<core_instances, coreRunning, corePc, task_queue, tasksStarted, monitorPc, daemonPc,
                   health_status, auto_heals, mapCallVars, poolVars, pipeVars, auxVars>>

\* stop(): self._running = False and worker.cancel() for every worker; the
\* monitor and the daemon are not cancelled
CoreStop ==
    /\ corePc = "started"
    /\ coreRunning' = FALSE
    /\ corePc' = "stopped"
    /\ workerPc' = [w \in Workers |->
                      IF workerPc[w] \in {"idle", "busy"} THEN "cancelled" ELSE workerPc[w]]
    /\ UNCHANGED <<core_instances, task_queue, tasksStarted, monitorPc, daemonPc,
                   health_status, auto_heals, mapVars, poolVars, pipeVars, auxVars>>

\* CancelledError is raised in the worker at its await; it is no Exception,
\* so neither _execute_task nor _worker catches it: the worker task ends
WorkerCancelled(w) ==
    /\ workerPc[w] = "cancelled"
    /\ workerPc' = [workerPc EXCEPT ![w] = "done"]
    /\ UNCHANGED <<core_instances, coreRunning, corePc, task_queue, tasksStarted, monitorPc, daemonPc,
                   health_status, auto_heals, mapVars, poolVars, pipeVars, auxVars>>

\* _health_monitor wakes (first run, or after asyncio.sleep(5)): the loop head,
\* then the worker count, the status, and the auto-heal when it is critical
HealthMonitorTick ==
    /\ monitorPc = "sleeping"
    /\ IF LoopContinues(coreRunning)
       THEN /\ UNCHANGED monitorPc
            /\ IF 2 * ActiveWorkers(workerPc) < TotalWorkers(workerPc)
               THEN /\ health_status' = "recovering"
                    /\ workerPc' = RestartDone(workerPc)
                    /\ auto_heals' = auto_heals + 1
               ELSE /\ health_status' =
                          IF 5 * ActiveWorkers(workerPc) < 4 * TotalWorkers(workerPc)
                          THEN "degraded" ELSE "healthy"
                    /\ UNCHANGED <<workerPc, auto_heals>>
       ELSE /\ monitorPc' = "exited"
            /\ UNCHANGED <<workerPc, health_status, auto_heals>>
    /\ UNCHANGED <<core_instances, coreRunning, corePc, task_queue, tasksStarted, daemonPc, mapVars,
                   poolVars, pipeVars, auxVars>>

\* _auto_heal_daemon wakes (first run, or after asyncio.sleep(10))
AutoHealDaemonTick ==
    /\ daemonPc = "sleeping"
    /\ IF LoopContinues(coreRunning)
       THEN /\ UNCHANGED daemonPc
            /\ IF health_status \in {"degraded", "critical"}
               THEN /\ health_status' = "recovering"
                    /\ workerPc' = RestartDone(workerPc)
                    /\ auto_heals' = auto_heals + 1
               ELSE UNCHANGED <<workerPc, health_status, auto_heals>>
       ELSE /\ daemonPc' = "exited"
            /\ UNCHANGED <<workerPc, health_status, auto_heals>>
    /\ UNCHANGED <<core_instances, coreRunning, corePc, task_queue, tasksStarted, monitorPc, mapVars,
                   poolVars, pipeVars, auxVars>>

CoreNext ==
    \/ \E mpi \in 0..MaxWorkers : CoreStartOnce(mpi)
    \/ PutTask
    \/ \E w \in Workers, co \in BOOLEAN, ok \in BOOLEAN : WorkerGet(w, co, ok)
    \/ \E w \in Workers, ok \in BOOLEAN : WorkerFinish(w, ok)
    \/ CoreStop
    \/ \E w \in Workers : WorkerCancelled(w)
    \/ HealthMonitorTick
    \/ AutoHealDaemonTick

\* the awaited func of a task raises asyncio.CancelledError (it awaited
\* something that was cancelled): no Exception, so neither _execute_task nor
\* _worker catches it, the task is not counted and the worker task ends
WorkerDies(w) ==
    /\ workerPc[w] = "busy"
    /\ workerPc' = [workerPc EXCEPT ![w] = "done"]
    /\ UNCHANGED <<core_instances, coreRunning, corePc, task_queue, tasksStarted, monitorPc,
                   daemonPc, health_status, auto_heals, mapVars, poolVars, pipeVars, auxVars>>

\* the engine under any start() and stop() calls, with workers that may end
EngineNext ==
    \/ \E mpi \in 0..MaxSlots : CoreStart(mpi)
    \/ PutTask
    \/ \E w \in Workers, co \in BOOLEAN, ok \in BOOLEAN : WorkerGet(w, co, ok)
    \/ \E w \in Workers, ok \in BOOLEAN : WorkerFinish(w, ok)
    \/ \E w \in Workers : WorkerDies(w)
    \/ CoreStop
    \/ \E w \in Workers : WorkerCancelled(w)
    \/ HealthMonitorTick
    \/ AutoHealDaemonTick

\* every task the event loop holds ready is run, and an awaited func ends
EngineFairness ==
    /\ \A w \in Workers : WF_vars(WorkerCancelled(w))
    /\ \A w \in Workers : WF_vars((\E ok \in BOOLEAN : WorkerFinish(w, ok)) \/ WorkerDies(w))
    /\ WF_vars(HealthMonitorTick)
    /\ WF_vars(AutoHealDaemonTick)

\* every task the event loop holds ready is run
CoreFairness ==
    /\ \A w \in Workers : WF_vars(WorkerCancelled(w))
    /\ WF_vars(HealthMonitorTick)
    /\ WF_vars(AutoHealDaemonTick)

\* The orchestrator in service: one start() whose instances are all healthy,
\* then any scrape() and scrape_parallel() calls, no stop() and no second start()
ServeStart(n) == calls.starts = 0 /\ Start(n, {})

ServeNext ==
    \/ \E n \in 1..MaxInstances : ServeStart(n)
    \/ \E i \in InstanceIds : InitInstance(i)
    \/ StartReturn
    \/ Scrape
    \/ \E n \in 0..MaxTargets : ScrapeParallel(n)
    \/ BoundedScrapeBurst
    \/ \E t \in Scrapes : BoundedScrapeEnter(t)
    \/ \E t \in Scrapes : ScrapeGet(t)
    \/ \E t \in Scrapes : ScrapeSucceed(t)
    \/ \E t \in Scrapes : ScrapeFail(t)
    \/ \E t \in Scrapes : ScrapeFinally(t)
    \/ ScrapeParallelReturn

\* The orchestrator over its life, as AutonomousPipeline drives it: one start()
\* whose instances are all healthy, scrape_parallel() calls, and stop() with
\* cleanups that may fail.  The semaphore of scrape_parallel admits as many
\* tasks as there are instances, so no task ever waits at the pool get here
LifeNext ==
    \/ \E n \in 1..MaxInstances : ServeStart(n)
    \/ \E i \in InstanceIds : InitInstance(i)
    \/ StartReturn
    \/ \E n \in 0..MaxTargets : ScrapeParallel(n)
    \/ BoundedScrapeBurst
    \/ \E t \in Scrapes : BoundedScrapeEnter(t)
    \/ \E t \in Scrapes : ScrapeSucceed(t)
    \/ \E t \in Scrapes : ScrapeFail(t)
    \/ \E t \in Scrapes : ScrapeFinally(t)
    \/ ScrapeParallelReturn
    \/ Stop
    \/ \E i \in InstanceIds, fails \in BOOLEAN : Cleanup(i, fails)
    \/ StopReturn

\* ------------------------------------------------- TripleCheckValidator
\* keys a validated dict may carry, the data types and the thresholds tried
LeadKeys == {"id", "source", "contact_info", "signal_type", "timestamp"}
DataTypes == {"property", "lead", "signal", "other"}
Thresholds == {50, 66, 67, default_threshold, 100}

\* the keys of the dict _execute_scraping builds for a successful scrape result
ScrapedLeadFields == {"id", "source_url", "raw_data", "scraped_at", "scrape_time_ms"}

\* _validate_schema: required_fields.get(data_type, [])
RequiredFields(data_type) ==
    CASE data_type = "property" -> {"id", "address", "property_type", "list_price"}
      [] data_type = "lead" -> {"id", "source", "contact_info"}
      [] data_type = "signal" -> {"id", "signal_type", "timestamp"}
      [] OTHER -> {}

\* all(field in data for field in fields)
ValidateSchema(fields, data_type) == RequiredFields(data_type) \subseteq fields

ValidateCrossReference == TRUE

ExternalUnverified == FALSE
ValidateExternal == TRUE

\* results['validations'], in the order schema, cross_reference, external
Checks(fields, data_type) ==
    <<ValidateSchema(fields, data_type), ValidateCrossReference, ValidateExternal>>

\* sum(results['validations'].values())
Passed(checks) == Cardinality({i \in 1..3 : checks[i]})

\* 'VALID' if all(results['validations'].values()) else 'INVALID'
FinalVerdict(checks) == IF \A i \in 1..3 : checks[i] THEN "VALID" ELSE "INVALID"

\* results['confidence'] = sum(...) / 3 * 100, kept exact as three times its value
Confidence3(fields, data_type) == Passed(Checks(fields, data_type)) * 100

\* result['confidence'] >= min_confidence_threshold * 100, threshold th in percent
Retained(conf3, th) == conf3 >= th * 3

\* the dict validate() returns, with the keys of the data it was given
ValidateResult(fields, data_type) ==
    [fields |-> fields,
     data_type |-> data_type,
     validations |-> Checks(fields, data_type),
     final_verdict |-> FinalVerdict(Checks(fields, data_type)),
     confidence3 |-> Confidence3(fields, data_type),
     threshold |-> None,
     kept |-> "untested"]

\* validate(data, data_type) called on its own
Validate(fields, data_type) ==
    /\ validation_history < MaxValidations
    /\ validation_history' = validation_history + 1
    /\ validation' = ValidateResult(fields, data_type)
    /\ UNCHANGED <<mapVars, poolVars, coreVars, pipeVars, crawlerVars, routerVars, hybridVars>>

\* _execute_validation with triple_check_enabled, for one lead and threshold th:
\* result = await self.validator.validate(lead, 'lead'); the lead is appended
\* to validated when result['confidence'] >= th
FilterLead(fields, th) ==
    /\ validation_history < MaxValidations
    /\ validation_history' = validation_history + 1
    /\ validation' = [ValidateResult(fields, "lead") EXCEPT
                         !.threshold = th,
                         !.kept = IF Retained(Confidence3(fields, "lead"), th)
                                  THEN "kept" ELSE "dropped"]
    /\ UNCHANGED <<mapVars, poolVars, coreVars, pipeVars, crawlerVars, routerVars, hybridVars>>

ValidatorNext ==
    \/ \E fields \in SUBSET LeadKeys, data_type \in DataTypes : Validate(fields, data_type)
    \/ \E fields \in SUBSET LeadKeys, th \in Thresholds : FilterLead(fields, th)

\* ------------------------------------------------- manus_core.SmartRouter
\* _check_availability: now - self._last_local_check > self._local_check_interval
CheckDue(t, last) == (t - last) * tick_seconds > local_check_interval

\* route(): the priority routing after _check_availability
RouteTarget(lp, la, ca) ==
    IF lp
    THEN IF la THEN "local" ELSE IF ca THEN "cloud" ELSE "raised"
    ELSE IF ca THEN "cloud" ELSE IF la THEN "local" ELSE "raised"

\* SmartRouter.__init__(local_primary)
NewRouter(lp) ==
    /\ routeOut = "unbuilt"
    /\ local_primary' = lp
    /\ local_available' = TRUE
    /\ cloud_available' = TRUE
    /\ last_local_check' = now
    /\ routeOut' = "none"
    /\ UNCHANGED <<now, localDown, mapVars, poolVars, coreVars, pipeVars, crawlerVars, validatorVars,
                   hybridVars>>

\* time passes between two calls
Tick ==
    /\ routeOut # "unbuilt"
    /\ now < MaxTicks
    /\ now' = now + 1
    /\ UNCHANGED <<local_primary, local_available, cloud_available, last_local_check,
                   localDown, routeOut, mapVars, poolVars, coreVars, pipeVars, crawlerVars,
                   validatorVars, hybridVars>>

\* set_local_status(available)
SetLocalStatus(available) ==
    /\ routeOut # "unbuilt"
    /\ local_available' = available
    /\ localDown' = ~available
    /\ UNCHANGED <<local_primary, cloud_available, now, last_local_check, routeOut,
                   mapVars, poolVars, coreVars, pipeVars, crawlerVars, validatorVars, hybridVars>>

\* the owner of the router assigns router.cloud_available
SetCloudAvailable(available) ==
    /\ routeOut # "unbuilt"
    /\ cloud_available' = available
    /\ UNCHANGED <<local_primary, local_available, now, last_local_check, localDown,
                   routeOut, mapVars, poolVars, coreVars, pipeVars, crawlerVars, validatorVars,
                   hybridVars>>

\* route(task): await self._check_availability(), which overwrites
\* local_available with True once the check interval has passed, then the
\* priority routing; nothing suspends in between
Route ==
    /\ routeOut # "unbuilt"
    /\ local_available' = IF CheckDue(now, last_local_check) THEN TRUE ELSE local_available
    /\ last_local_check' = IF CheckDue(now, last_local_check) THEN now ELSE last_local_check
    /\ routeOut' = RouteTarget(local_primary, local_available', cloud_available)
    /\ UNCHANGED <<local_primary, cloud_available, now, localDown, mapVars, poolVars,
                   coreVars, pipeVars, crawlerVars, validatorVars, hybridVars>>

RouterNext ==
    \/ \E lp \in BOOLEAN : NewRouter(lp)
    \/ Tick
    \/ \E available \in BOOLEAN : SetLocalStatus(available)
    \/ \E available \in BOOLEAN : SetCloudAvailable(available)
    \/ Route

\* ------------------------------------------------- hybrid_sync.SmartRouter
\* determine_target(): the smart routing logic on the results of the two checks
FallbackAlways(lp, cf, lok, cok) ==
    IF lp
    THEN IF lok THEN "LOCAL" ELSE IF cok THEN "CLOUD" ELSE "raised"
    ELSE IF cok THEN "CLOUD" ELSE IF lok THEN "LOCAL" ELSE "raised"
HybridTarget(lp, cf, lok, cok) ==
    IF lp
    THEN IF lok THEN "LOCAL" ELSE IF cok /\ cf THEN "CLOUD" ELSE "raised"
    ELSE IF cok THEN "CLOUD" ELSE IF lok THEN "LOCAL" ELSE "raised"

\* SmartRouter.__init__(config)
NewHybridRouter(lp, cf) ==
    /\ determined.out = "unbuilt"
    /\ hybridConfig' = [local_primary |-> lp, cloud_fallback |-> cf]
    /\ current_target' = IF lp THEN "LOCAL" ELSE "CLOUD"
    /\ determined' = NoCall
    /\ UNCHANGED <<mapVars, poolVars, coreVars, pipeVars, crawlerVars, validatorVars, routerVars>>

\* determine_target(): local_available = await self.local_detector.check_availability(),
\* which returns a bool and turns every exception into False
DetermineLocalCheck(ok) ==
    /\ determined.out \in {"none", "LOCAL", "CLOUD", "raised"}
    /\ determined.calls < MaxDetermine
    /\ determined' = [out |-> "local_checked", local_ok |-> ok, cloud_ok |-> FALSE,
                      before |-> current_target, calls |-> determined.calls + 1]
    /\ UNCHANGED <<hybridConfig, current_target, mapVars, poolVars, coreVars, pipeVars, crawlerVars,
                   validatorVars, routerVars>>

\* cloud_available = await self.cloud_connector.check_availability(), likewise
DetermineCloudCheck(ok) ==
    /\ determined.out = "local_checked"
    /\ determined' = [determined EXCEPT !.out = "cloud_checked", !.cloud_ok = ok]
    /\ UNCHANGED <<hybridConfig, current_target, mapVars, poolVars, coreVars, pipeVars, crawlerVars,
                   validatorVars, routerVars>>

\* the routing: self._current_target is assigned and returned, or RuntimeError
\* is raised before any assignment
DetermineRoute ==
    /\ determined.out = "cloud_checked"
    /\ LET out == HybridTarget(hybridConfig.local_primary, hybridConfig.cloud_fallback,
                               determined.local_ok, determined.cloud_ok)
       IN /\ determined' = [determined EXCEPT !.out = out]
          /\ current_target' = IF out = "raised" THEN current_target ELSE out
    /\ UNCHANGED <<hybridConfig, mapVars, poolVars, coreVars, pipeVars, crawlerVars, validatorVars,
                   routerVars>>

HybridNext ==
    \/ \E lp \in BOOLEAN, cf \in BOOLEAN : NewHybridRouter(lp, cf)
    \/ \E ok \in BOOLEAN : DetermineLocalCheck(ok)
    \/ \E ok \in BOOLEAN : DetermineCloudCheck(ok)
    \/ DetermineRoute

\* --------------------------------------------- government_crawler.auto_heal
\* what one invocation of the wrapped function, or one request, can do
\* "fail" (RequestException raised), "error" (another exception raised) or "ok"
\* with the value returned
Outcomes ==
    {[kind |-> k, value |-> None] : k \in {"fail", "error"}}
        \cup {[kind |-> "ok", value |-> v] : v \in 1..MaxResults}

\* the argument of time.sleep after the failed attempt i
DelayLinear(delay, i) == delay * (i + 1)
HealDelay(delay, i) == delay * (2 ^ i)

\* auto_heal(func, retries, delay): the closure is built
NewWrapper(r, d) ==
    /\ healPc = "unbuilt"
    /\ healPc' = "ready"
    /\ heal_retries' = r
    /\ heal_delay' = d
    /\ UNCHANGED <<heal_i, healOutcomes, healSlept, healOut, healCalls, fetchVars,
                   mapVars, poolVars, coreVars, pipeVars, validatorVars, routerVars, hybridVars>>

\* wrapper(*args, **kwargs) is called: for i in range(retries) starts
WrapperCall ==
    /\ healPc \in {"ready", "returned", "raised"}
    /\ healCalls < MaxWrapperCalls
    /\ healCalls' = healCalls + 1
    /\ healPc' = "loop"
    /\ heal_i' = 0
    /\ healOutcomes' = <<>>
    /\ healSlept' = <<>>
    /\ healOut' = None
    /\ UNCHANGED <<heal_retries, heal_delay, fetchVars,
                   mapVars, poolVars, coreVars, pipeVars, validatorVars, routerVars, hybridVars>>

\* try: return func(*args, **kwargs); RequestException is caught and printed,
\* any other exception leaves the wrapper
WrapperInvoke(outcome) ==
    /\ healPc = "loop"
    /\ heal_i < heal_retries
    /\ healOutcomes' = Append(healOutcomes, outcome)
    /\ healPc' = CASE outcome.kind = "fail" -> "sleep"
                   [] outcome.kind = "error" -> "raised"
                   [] OTHER -> "returned"
    /\ healOut' = IF outcome.kind = "ok" THEN outcome.value ELSE healOut
    /\ UNCHANGED <<heal_retries, heal_delay, heal_i, healSlept, healCalls, fetchVars,
                   mapVars, poolVars, coreVars, pipeVars, validatorVars, routerVars, hybridVars>>

\* time.sleep(delay * (2 ** i)) in the except clause, then the next i
WrapperSleep ==
    /\ healPc = "sleep"
    /\ healSlept' = Append(healSlept, HealDelay(heal_delay, heal_i))
    /\ heal_i' = heal_i + 1
    /\ healPc' = "loop"
    /\ UNCHANGED <<heal_retries, heal_delay, healOutcomes, healOut, healCalls, fetchVars,
                   mapVars, poolVars, coreVars, pipeVars, validatorVars, routerVars, hybridVars>>

\* the range is exhausted: "All retries failed" is printed, return None
WrapperExhausted ==
    /\ healPc = "loop"
    /\ heal_i >= heal_retries
    /\ healPc' = "returned"
    /\ healOut' = None
    /\ UNCHANGED <<heal_retries, heal_delay, heal_i, healOutcomes, healSlept, healCalls,
                   fetchVars,
                   mapVars, poolVars, coreVars, pipeVars, validatorVars, routerVars, hybridVars>>

HealNext ==
    \/ \E r \in 0..MaxAttempts, d \in {1, default_delay} : NewWrapper(r, d)
    \/ WrapperCall
    \/ \E outcome \in Outcomes : WrapperInvoke(outcome)
    \/ WrapperSleep
    \/ WrapperExhausted

\* ------------------------------------------------ UniversalCrawler.fetch_page
\* the argument of time.sleep after the failed attempt
Backoff(factor, attempt) == factor * (2 ^ attempt)

\* whether the except clause sleeps and goes on, or logs and returns None
SleepAfterEvery(attempt, retries) == TRUE
MoreAttempts(attempt, retries) == attempt < retries - 1

\* fetch_page(url, retries, backoff_factor) is called: the for loop starts
FetchPage(r, bf) ==
    /\ fetchPc \in {"idle", "returned", "raised"}
    /\ fetchCalls < MaxWrapperCalls
    /\ fetchCalls' = fetchCalls + 1
    /\ fetchPc' = "loop"
    /\ fetch_retries' = r
    /\ backoff_factor' = bf
    /\ fetch_attempt' = 0
    /\ fetchOutcomes' = <<>>
    /\ fetchSlept' = <<>>
    /\ fetchOut' = None
    /\ UNCHANGED <<healVars,
                   mapVars, poolVars, coreVars, pipeVars, validatorVars, routerVars, hybridVars>>

\* session.get, raise_for_status, report_metric, return response.text; a
\* RequestException is logged and, on the last attempt, ends the call with None
FetchRequest(outcome) ==
    /\ fetchPc = "loop"
    /\ fetch_attempt < fetch_retries
    /\ fetchOutcomes' = Append(fetchOutcomes, outcome)
    /\ fetchPc' = CASE outcome.kind = "fail" ->
                         IF MoreAttempts(fetch_attempt, fetch_retries)
                         THEN "sleep" ELSE "returned"
                    [] outcome.kind = "error" -> "raised"
                    [] OTHER -> "returned"
    /\ fetchOut' = IF outcome.kind = "ok" THEN outcome.value ELSE None
    /\ UNCHANGED <<fetch_retries, backoff_factor, fetch_attempt, fetchSlept, fetchCalls,
                   healVars,
                   mapVars, poolVars, coreVars, pipeVars, validatorVars, routerVars, hybridVars>>

\* time.sleep(backoff_factor * (2 ** attempt)), then the next attempt
FetchSleep ==
    /\ fetchPc = "sleep"
    /\ fetchSlept' = Append(fetchSlept, Backoff(backoff_factor, fetch_attempt))
    /\ fetch_attempt' = fetch_attempt + 1
    /\ fetchPc' = "loop"
    /\ UNCHANGED <<fetch_retries, backoff_factor, fetchOutcomes, fetchOut, fetchCalls,
                   healVars,
                   mapVars, poolVars, coreVars, pipeVars, validatorVars, routerVars, hybridVars>>

\* range(retries) is empty or exhausted: the function falls off its end
FetchFallsOff ==
    /\ fetchPc = "loop"
    /\ fetch_attempt >= fetch_retries
    /\ fetchPc' = "returned"
    /\ fetchOut' = None
    /\ UNCHANGED <<fetch_retries, backoff_factor, fetch_attempt, fetchOutcomes, fetchSlept,
                   fetchCalls, healVars,
                   mapVars, poolVars, coreVars, pipeVars, validatorVars, routerVars, hybridVars>>

FetchNext ==
    \/ \E r \in 0..MaxAttempts, bf \in {default_backoff, 2 * default_backoff} : FetchPage(r, bf)
    \/ \E outcome \in Outcomes : FetchRequest(outcome)
    \/ FetchSleep
    \/ FetchFallsOff


\* -------------------------------------------------- AutonomousPipeline.run
cfgVars == <<constructed, auto_retry, max_retries, triple_check_enabled,
             min_confidence_threshold>>
leadVars == <<leads, leads_scraped, leads_validated, leads_analyzed, leads_stored>>
otherVars == <<mapVars, poolVars, coreVars, auxVars>>

Depth == Len(runPc)
TopPc == IF runPc = <<>> THEN "none" ELSE runPc[Len(runPc)]
SetTop(pc) == [runPc EXCEPT ![Len(runPc)] = pc]

\* deepest recursion of run() followed: beyond what any max_retries <= MaxRetries allows
MaxRunDepth == MaxRetries + 2

\* if self.config.auto_retry and len(self.result.errors) < self.config.max_retries
RetryWhileEnabled(ar, errs, mr) == ar
ShouldRetry(ar, errs, mr) == ar /\ errs < mr

\* run(): the stage set after stage s returned
StageAfterNext(s) == IF s = 2 THEN 4 ELSE s + 1
NextStage(s) == s + 1

\* finally: await self._cleanup() on the way out of every run() frame
FinallyPc(raised) == "cleanup_scraper"

\* _execute_validation: the leads of one attempt all carry the keys that
\* _execute_scraping gives them, so they are kept or dropped together
ValidatedCount(n, tc, th) ==
    IF ~tc THEN n
    ELSE IF Retained(Confidence3(ScrapedLeadFields, "lead"), th) THEN n ELSE 0

\* AutonomousPipeline.__init__: the config, a fresh PipelineResult
NewPipeline(ar, mr, tc, th) ==
    /\ ~constructed
    /\ constructed' = TRUE
    /\ auto_retry' = ar
    /\ max_retries' = mr
    /\ triple_check_enabled' = tc
    /\ min_confidence_threshold' = th
    /\ resultStage' = 0
    /\ errors' = 0
    /\ end_time' = FALSE
    /\ leads' = 0
    /\ leads_scraped' = 0
    /\ leads_validated' = 0
    /\ leads_analyzed' = 0
    /\ leads_stored' = 0
    /\ UNCHANGED <<runPc, executions, runCalls, runOut, scraperRunning, engineRunning,
                   attemptRaised, cleanups, otherVars>>

\* the caller's run(): self._running = True, up to await self.initialize()
Run ==
    /\ constructed
    /\ runPc = <<>>
    /\ runCalls < MaxRunCalls
    /\ runCalls' = runCalls + 1
    /\ runPc' = <<"initialize">>
    /\ executions' = 1
    /\ runOut' = "none"
    /\ attemptRaised' = FALSE
    /\ cleanups' = 0
    /\ leads' = 0
    /\ UNCHANGED <<cfgVars, resultStage, errors, end_time, leads_scraped, leads_validated,
                   leads_analyzed, leads_stored, scraperRunning, engineRunning, otherVars>>

\* initialize(): result.stage = INITIALIZATION; await self.manus_core.start()
InitializeCore ==
    /\ TopPc = "initialize"
    /\ resultStage' = 0
    /\ engineRunning' = TRUE
    /\ runPc' = SetTop("scraper_start")
    /\ UNCHANGED <<cfgVars, errors, executions, runCalls, runOut, scraperRunning, end_time,
                   attemptRaised, cleanups, leadVars, otherVars>>

\* initialize(): await self.scraper.start(max_parallel_scrapers); start() sets
\* _running before it builds the instances, and raises when a construction fails.
\* except Exception: errors.append("Initialization: ..."); raise
InitializeScraper(ok) ==
    /\ TopPc = "scraper_start"
    /\ scraperRunning' = TRUE
    /\ IF ok
       THEN runPc' = SetTop("components") /\ UNCHANGED <<errors, attemptRaised>>
       ELSE runPc' = SetTop("except") /\ errors' = errors + 1 /\ attemptRaised' = TRUE
    /\ UNCHANGED <<cfgVars, resultStage, executions, runCalls, runOut, engineRunning,
                   end_time, cleanups, leadVars, otherVars>>

\* initialize(): the Vertex AI, AutoML, BigQuery and Firestore clients; on the
\* way out run() sets result.stage = SCRAPING
InitializeClients(ok) ==
    /\ TopPc = "components"
    /\ IF ok
       THEN /\ runPc' = SetTop("stage")
            /\ resultStage' = NextStage(resultStage)
            /\ UNCHANGED <<errors, attemptRaised>>
       ELSE /\ runPc' = SetTop("except")
            /\ errors' = errors + 1
            /\ attemptRaised' = TRUE
            /\ UNCHANGED resultStage
    /\ UNCHANGED <<cfgVars, executions, runCalls, runOut, scraperRunning, engineRunning,
                   end_time, cleanups, leadVars, otherVars>>

\* stage 1: raw_leads = await self._execute_scraping(targets): scrape_parallel
\* returns one result per target, failures included, and n of them are
\* successful with data; result.leads_scraped = len(raw_leads)
ExecuteScraping(n) ==
    /\ TopPc = "stage"
    /\ resultStage = 1
    /\ leads' = n
    /\ leads_scraped' = n
    /\ resultStage' = NextStage(resultStage)
    /\ UNCHANGED <<cfgVars, runPc, errors, executions, runCalls, runOut, scraperRunning,
                   engineRunning, end_time, attemptRaised, cleanups, leads_validated,
                   leads_analyzed, leads_stored, otherVars>>

\* stage 2: validated_leads = await self._execute_validation(raw_leads);
\* result.leads_validated = len(validated_leads)
ExecuteValidation ==
    /\ TopPc = "stage"
    /\ resultStage = 2
    /\ leads' = ValidatedCount(leads, triple_check_enabled, min_confidence_threshold)
    /\ leads_validated' = leads'
    /\ resultStage' = NextStage(resultStage)
    /\ UNCHANGED <<cfgVars, runPc, errors, executions, runCalls, runOut, scraperRunning,
                   engineRunning, end_time, attemptRaised, cleanups, leads_scraped,
                   leads_analyzed, leads_stored, otherVars>>

\* stage 3: analyzed_leads = await self._execute_analysis(validated_leads):
\* map_parallel turns a failing analysis into a failed TaskResult, and the k
\* successful ones are kept; result.leads_analyzed = len(analyzed_leads)
ExecuteAnalysis(k) ==
    /\ TopPc = "stage"
    /\ resultStage = 3
    /\ k <= leads
    /\ leads' = k
    /\ leads_analyzed' = k
    /\ resultStage' = NextStage(resultStage)
    /\ UNCHANGED <<cfgVars, runPc, errors, executions, runCalls, runOut, scraperRunning,
                   engineRunning, end_time, attemptRaised, cleanups, leads_scraped,
                   leads_validated, leads_stored, otherVars>>

\* stages 4 (scoring), 5 (enrichment), 6 (storage) and 7 (reporting) keep every
\* lead; each calls out (AutoML, BigQuery, Firestore, the local files) and
\* returns or raises.  Stage 6 sets result.leads_stored; after stage 7 the
\* result is COMPLETE with end_time set and control falls into the finally block
ExecuteLaterStage(ok) ==
    /\ TopPc = "stage"
    /\ resultStage \in 4..NumStages
    /\ IF ~ok
       THEN /\ runPc' = SetTop("except")
            /\ attemptRaised' = TRUE
            /\ UNCHANGED <<resultStage, end_time, leads_stored>>
       ELSE /\ resultStage' = NextStage(resultStage)
            /\ leads_stored' = IF resultStage = 6 THEN leads ELSE leads_stored
            /\ end_time' = IF resultStage = NumStages THEN TRUE ELSE end_time
            /\ runPc' = IF resultStage = NumStages THEN SetTop(FinallyPc(FALSE)) ELSE runPc
            /\ UNCHANGED attemptRaised
    /\ UNCHANGED <<cfgVars, errors, executions, runCalls, runOut, scraperRunning,
                   engineRunning, cleanups, leads, leads_scraped, leads_validated,
                   leads_analyzed, otherVars>>

\* run(): except Exception: errors.append(str(e)); the retry condition holds:
\* return await self.run(targets), entered from inside the except block
ExceptRetry ==
    /\ TopPc = "except"
    /\ ShouldRetry(auto_retry, errors + 1, max_retries)
    /\ Depth < MaxRunDepth
    /\ errors' = errors + 1
    /\ runPc' = Append(SetTop("retry"), "initialize")
    /\ executions' = executions + 1
    /\ attemptRaised' = FALSE
    /\ leads' = 0
    /\ UNCHANGED <<cfgVars, resultStage, runCalls, runOut, scraperRunning, engineRunning,
                   end_time, cleanups, leads_scraped, leads_validated, leads_analyzed,
                   leads_stored, otherVars>>

\* run(): except Exception: errors.append(str(e)); no retry: on to the finally block
ExceptGiveUp ==
    /\ TopPc = "except"
    /\ ~ShouldRetry(auto_retry, errors + 1, max_retries)
    /\ errors' = errors + 1
    /\ runPc' = SetTop(FinallyPc(TRUE))
    /\ UNCHANGED <<cfgVars, resultStage, executions, runCalls, runOut, scraperRunning,
                   engineRunning, end_time, attemptRaised, cleanups, leadVars, otherVars>>

\* the nested run() returned self.result: the frame that awaited it leaves its
\* except block through the return statement, into its finally block
NestedReturn ==
    /\ Depth >= 2
    /\ TopPc = "returned"
    /\ runPc' = [SubSeq(runPc, 1, Depth - 1) EXCEPT ![Depth - 1] = FinallyPc(TRUE)]
    /\ UNCHANGED <<cfgVars, resultStage, errors, executions, runCalls, runOut,
                   scraperRunning, engineRunning, end_time, attemptRaised, cleanups,
                   leadVars, otherVars>>

\* finally: self._running = False; _cleanup(): await self.scraper.stop()
CleanupScraper ==
    /\ TopPc = "cleanup_scraper"
    /\ scraperRunning' = FALSE
    /\ cleanups' = cleanups + 1
    /\ runPc' = SetTop("cleanup_core")
    /\ UNCHANGED <<cfgVars, resultStage, errors, executions, runCalls, runOut,
                   engineRunning, end_time, attemptRaised, leadVars, otherVars>>

\* _cleanup(): await self.manus_core.stop()
CleanupCore ==
    /\ TopPc = "cleanup_core"
    /\ engineRunning' = FALSE
    /\ runPc' = SetTop("returned")
    /\ UNCHANGED <<cfgVars, resultStage, errors, executions, runCalls, runOut,
                   scraperRunning, end_time, attemptRaised, cleanups, leadVars, otherVars>>

\* the caller's run() returns self.result
RunReturn ==
    /\ Depth = 1
    /\ TopPc = "returned"
    /\ runPc' = <<>>
    /\ runOut' = "result"
    /\ UNCHANGED <<cfgVars, resultStage, errors, executions, runCalls, scraperRunning,
                   engineRunning, end_time, attemptRaised, cleanups, leadVars, otherVars>>

PipeNext ==
    \/ \E ar \in BOOLEAN, mr \in 0..MaxRetries, tc \in BOOLEAN :
           NewPipeline(ar, mr, tc, default_threshold)
    \/ Run
    \/ InitializeCore
    \/ \E ok \in BOOLEAN : InitializeScraper(ok)
    \/ \E ok \in BOOLEAN : InitializeClients(ok)
    \/ \E n \in 0..MaxLeads : ExecuteScraping(n)
    \/ ExecuteValidation
    \/ \E k \in 0..MaxLeads : ExecuteAnalysis(k)
    \/ \E ok \in BOOLEAN : ExecuteLaterStage(ok)
    \/ ExceptRetry
    \/ ExceptGiveUp
    \/ NestedReturn
    \/ CleanupScraper
    \/ CleanupCore
    \/ RunReturn

\* every awaited component call and stage returns or raises, and the event
\* loop resumes run(); no run() call is ever bound to be made
PipeFairness ==
    /\ WF_vars(InitializeCore)
    /\ WF_vars(\E ok \in BOOLEAN : InitializeScraper(ok))
    /\ WF_vars(\E ok \in BOOLEAN : InitializeClients(ok))
    /\ WF_vars(\E n \in 0..MaxLeads : ExecuteScraping(n))
    /\ WF_vars(ExecuteValidation)
    /\ WF_vars(\E k \in 0..MaxLeads : ExecuteAnalysis(k))
    /\ WF_vars(\E ok \in BOOLEAN : ExecuteLaterStage(ok))
    /\ WF_vars(ExceptRetry)
    /\ WF_vars(ExceptGiveUp)
    /\ WF_vars(NestedReturn)
    /\ WF_vars(CleanupScraper)
    /\ WF_vars(CleanupCore)
    /\ WF_vars(RunReturn)

\* ---------------------------------------------------------- specifications
\* ManusCore alone
SpecMap == Init /\ [][MapNext]_vars

\* HeadlessOrchestrator alone, under any calls
SpecPool == Init /\ [][PoolNext]_vars

\* HeadlessOrchestrator in service
SpecServe == Init /\ [][ServeNext]_vars

\* HeadlessOrchestrator from start() to stop()
SpecLife == Init /\ [][LifeNext]_vars

\* The asyncio event loop runs every ready task: a coroutine whose next stretch
\* stays possible is run eventually, and the operation of a scrape that holds
\* an instance finishes.  No call is ever bound to be made.
ServeFairness ==
    /\ \A i \in InstanceIds : WF_vars(InitInstance(i))
    /\ WF_vars(StartReturn)
    /\ WF_vars(BoundedScrapeBurst)
    /\ \A t \in Scrapes : WF_vars(BoundedScrapeEnter(t))
    /\ \A t \in Scrapes : WF_vars(ScrapeGet(t))
    /\ \A t \in Scrapes : WF_vars(ScrapeSucceed(t) \/ ScrapeFail(t))
    /\ \A t \in Scrapes : WF_vars(ScrapeFinally(t))
    /\ WF_vars(ScrapeParallelReturn)

SpecServeFair == SpecServe /\ ServeFairness

\* the engine of ManusCore: start(), queued tasks, stop()
SpecCore == Init /\ [][CoreNext]_vars
SpecCoreFair == SpecCore /\ CoreFairness

\* the engine of ManusCore under repeated start() and stop()
SpecEngine == Init /\ [][EngineNext]_vars
SpecEngineFair == SpecEngine /\ EngineFairness

\* AutonomousPipeline: construction and run() calls
SpecPipe == Init /\ [][PipeNext]_vars
SpecPipeFair == SpecPipe /\ PipeFairness

\* TripleCheckValidator and the retention test, on any data
SpecValidator == Init /\ [][ValidatorNext]_vars

\* manus_core.SmartRouter under any calls and any passing of time
SpecRouter == Init /\ [][RouterNext]_vars

\* hybrid_sync.SmartRouter under any configuration and any check results
SpecHybrid == Init /\ [][HybridNext]_vars

\* one auto_heal wrapper of government_crawler
SpecHeal == Init /\ [][HealNext]_vars

\* fetch_page of one UniversalCrawler
SpecFetch == Init /\ [][FetchNext]_vars

\* ManusCore and HeadlessOrchestrator share no state, and map_parallel and the
\* workers share the counters only: the behaviours of map_parallel alone, of
\* the orchestrator in service alone, and of the engine alone
Next ==
    \/ PoolInit /\ CoreInit /\ MapNext
    \/ MapInit /\ CoreInit /\ ServeNext
    \/ PoolInit /\ mapCalls = 0 /\ CoreNext

Spec == Init /\ [][Next]_vars

\* ------------------------------------------------------------------ claims
RunningTasks == {i \in Indices : taskPc[i] = "running"}
BorrowingScrapes == {t \in Scrapes : InFlight(t)}
InPool(id) == \E k \in 1..Len(instance_pool) : instance_pool[k] = id
TimesInPool(id) == Cardinality({k \in 1..Len(instance_pool) : instance_pool[k] = id})
TimesHeld(id) == Cardinality({t \in BorrowingScrapes : held[t] = id})
\* a map_parallel call within the contract: non-empty inputs, max_concurrent in 1..N
InContract == N >= 1 /\ ~max_concurrent.isNone /\ max_concurrent.v \in 1..N

\* C1: map_parallel over N >= 1 inputs with max_concurrent in 1..N returns
\* exactly N results, and the result at index i is the outcome of
\* func(inputs[i]) (its task id, its success flag, its data), in whatever order
\* the tasks completed.
C1_ResultsIndexAligned ==
    (mapPc = "returned" /\ InContract) =>
        /\ Len(final_results) = N
        /\ \A i \in 1..N :
             /\ final_results[i].task_id = i - 1
             /\ final_results[i].success = (i \notin raisesAt)
             /\ final_results[i].data = IF i \in raisesAt THEN None ELSE Func(inputs[i])

\* a call whose tasks completed in another order than they were submitted
C1_Witness ==
    /\ mapPc = "returned"
    /\ InContract
    /\ N >= 2
    /\ completed[1] # 1
    /\ final_results[1].task_id = 0

\* C2: while map_parallel runs with max_concurrent >= 1, the number of func
\* executions started and not yet finished never exceeds max_concurrent.
C2_AtMostMaxConcurrent ==
    (mapPc = "running" /\ ~max_concurrent.isNone /\ max_concurrent.v >= 1) =>
        Cardinality(RunningTasks) <= max_concurrent.v

\* the cap is reached and a further task is kept waiting
C2_Witness ==
    /\ mapPc = "running"
    /\ ~max_concurrent.isNone
    /\ max_concurrent.v >= 1
    /\ Cardinality(RunningTasks) = max_concurrent.v
    /\ \E i \in 1..N : taskPc[i] = "pending"

\* C3: no instance id is held by two in-flight scrapes at once, and no id is
\* both in the available queue and held by a scrape, under any start, stop,
\* scrape and scrape_parallel calls.
C3_ExclusiveBorrow ==
    \A a \in Scrapes : InFlight(a) =>
        /\ ~InPool(held[a])
        /\ \A b \in Scrapes : (b # a /\ InFlight(b)) => held[b] # held[a]

\* C4: after one start(n) whose n instances are all healthy (and no stop),
\* under any interleaving of scrapes, the ids in the queue plus the ids held by
\* in-flight scrapes are exactly the n ids, each once.
C4_PoolConservation ==
    (startPc = "started" /\ calls.starts = 1 /\ calls.stops = 0) =>
        /\ Len(instance_pool) + Cardinality(BorrowingScrapes) = num_instances
        /\ \A id \in InstanceIds :
             TimesInPool(id) + TimesHeld(id) = (IF id < num_instances THEN 1 ELSE 0)

\* every instance is borrowed and a further scrape waits at the empty queue
C4_Witness ==
    /\ startPc = "started"
    /\ calls.starts = 1
    /\ calls.stops = 0
    /\ num_instances >= 2
    /\ Cardinality(BorrowingScrapes) = num_instances
    /\ instance_pool = <<>>
    /\ \E t \in Scrapes : scPc[t] = "get"

\* C5: a scrape that took an instance id from the pool has put it back by the
\* time it is over, whichever way it ended.
C5_IdAlwaysReturned ==
    \A t \in Scrapes : Finished(t) => held[t] = None

\* C6: an operation that raises fails its own item only.  map_parallel returns
\* (it does not raise), it ran func on every input, and its i-th result is
\* failed exactly when func raised on inputs[i]; scrape_parallel returns one
\* result per target, failed exactly when that target's navigation failed.
C6_FailuresIsolated ==
    /\ mapPc = "error" => (~max_concurrent.isNone /\ max_concurrent.v < 0)
    /\ mapPc = "returned" =>
          /\ Len(final_results) = N
          /\ \A i \in 1..N :
               /\ funcCalls[i] = 1
               /\ final_results[i].success = (i \notin raisesAt)
               /\ final_results[i].error = (i \in raisesAt)
    /\ parPc = "returned" =>
          /\ Len(scrape_results) = targets
          /\ \A t \in 1..targets :
               /\ scrape_results[t].target = t
               /\ scrape_results[t].success = ~navFails[t]
               /\ scrape_results[t].error = navFails[t]

\* a returned map_parallel call in which func raised on some inputs and not on
\* others
C6_Witness ==
    /\ mapPc = "returned"
    /\ raisesAt # {}
    /\ raisesAt # 1..N
    /\ \E i \in 1..N : ~final_results[i].success
    /\ \E i \in 1..N : final_results[i].success

\* C7: when func succeeds on every input, the first map_parallel call on a
\* ManusCore returns N successful results with data = func(inputs[i]) and
\* leaves tasks_succeeded = N and tasks_failed = 0.
C7_AllSucceed ==
    (mapPc = "returned" /\ mapCalls = 1 /\ raisesAt = {}) =>
        /\ Len(final_results) = N
        /\ \A i \in 1..N :
             final_results[i].success /\ final_results[i].data = Func(inputs[i])
        /\ metrics.tasks_succeeded = N
        /\ metrics.tasks_failed = 0

C7_Witness ==
    /\ mapPc = "returned"
    /\ mapCalls = 1
    /\ raisesAt = {}
    /\ N >= 2
    /\ metrics.tasks_succeeded = N

\* C8: when the construction of k of the n instances fails, 0 < k < n, start()
\* does not fail, and once the constructions are over the pool holds exactly
\* the n - k healthy ids.
C8_StartSurvivesFailedInstances ==
    (/\ calls.starts = 1
     /\ calls.stops = 0
     /\ startPc \in {"started", "failed"}
     /\ \A i \in InstanceIds : initPc[i] # "pending"
     /\ initFails # {}
     /\ Cardinality(initFails) < num_instances) =>
        /\ startPc = "started"
        /\ Len(instance_pool) + Cardinality(BorrowingScrapes)
              = num_instances - Cardinality(initFails)

\* C9: scrape_parallel over a non-empty target list never reaches the state in
\* which every bounded_scrape waits at a semaphore that has no slot and no
\* holder (with zero instances it is to fail fast instead).
C9_NeverAllWaiting ==
    ~(/\ parPc = "running"
      /\ targets >= 1
      /\ instances = {}
      /\ scrapeSem = 0
      /\ \A t \in 1..targets : scPc[t] = "sem")

\* C10: map_parallel called with max_concurrent <= 0 reports an error and runs
\* func on no input.
C10_NonPositiveIsError ==
    (mapCalls >= 1 /\ ~max_concurrent.isNone /\ max_concurrent.v <= 0) =>
        /\ mapPc = "error"
        /\ \A i \in Indices : funcCalls[i] = 0

\* C11: a step of map_parallel on an empty input list (that does not end in
\* the error of a negative max_concurrent) and a step of scrape_parallel on an
\* empty target list schedule no task, take no semaphore slot and no instance,
\* leave the queue of available ids and the counters as they were, and the list
\* returned is empty.
C11_EmptyListStep ==
    /\ (mapPc' # mapPc /\ Len(inputs') = 0 /\ mapPc' # "error") =>
          /\ metrics' = metrics
          /\ semaphore' = EffectiveMaxConcurrent(max_concurrent')
          /\ \A i \in Indices : taskPc'[i] = "none" /\ funcCalls'[i] = 0
          /\ mapPc' = "returned" => final_results' = <<>>
    /\ (parPc' # parPc /\ targets' = 0) =>
          /\ instance_pool' = instance_pool
          /\ scrapeMetrics' = scrapeMetrics
          /\ instances' = instances
          /\ \A t \in Scrapes \ {Direct} : scPc'[t] = "none" /\ held'[t] = None
          /\ parPc' = "running" => scrapeSem' = Cardinality(instances)
          /\ parPc' = "returned" => scrape_results' = <<>>

C11_EmptyListFrame == [][C11_EmptyListStep]_vars

\* scrape_parallel([]) has returned on an orchestrator that has ids available
\* and has counted a scrape before
C11_Witness ==
    /\ parPc = "returned"
    /\ targets = 0
    /\ scrape_results = <<>>
    /\ instance_pool # <<>>
    /\ scrapeMetrics.total_scrapes >= 1

\* C12: once stop() is over and the orchestrator has not been started again,
\* stop() has not raised and the cleanup of every instance of the table has
\* run to its end, cleanly or with its error logged, whichever cleanups failed.
C12_StopToleratesFailedTeardown ==
    /\ stopPc # "failed"
    /\ (stopPc = "stopped" /\ ~running /\ startPc = "started") =>
          \A i \in InstanceIds : i < num_instances => cleanupPc[i] \in {"cleaned", "logged"}

\* stop() returned although the cleanup of one instance failed, and the
\* cleanup of another instance went through
C12_Witness ==
    /\ stopPc = "stopped"
    /\ ~running
    /\ startPc = "started"
    /\ \E i \in InstanceIds : cleanupPc[i] = "logged"
    /\ \E i \in InstanceIds : cleanupPc[i] = "cleaned"

\* C13: after stop() has returned (and before any later start()), the queue
\* of available ids is empty and the instance table is empty.
C13_StopDrainsPool ==
    (stopPc = "stopped" /\ ~running) => (instance_pool = <<>> /\ instances = {})

\* C14: within one map_parallel call an item goes from pending to running to
\* done and never back: func is invoked at most once per input and exactly once
\* by the time the item is done, a done item carries a success or a failure
\* record that never changes, and a failed item is not run again.
C14_ItemStep ==
    \A i \in Indices :
        /\ funcCalls'[i] <= 1
        /\ taskPc'[i] = "done" => (funcCalls'[i] = 1 /\ taskOut'[i].kind = "result")
        /\ taskPc'[i] \in {"none", "pending"} => funcCalls'[i] = 0
        /\ mapCalls' = mapCalls =>
              /\ taskPc[i] = "none" => taskPc'[i] = "none"
              /\ taskPc[i] = "running" => taskPc'[i] \in {"running", "done"}
              /\ taskPc[i] = "done" =>
                    /\ taskPc'[i] = "done"
                    /\ taskOut'[i] = taskOut[i]
                    /\ funcCalls'[i] = funcCalls[i]

C14_ItemStateMachine == [][C14_ItemStep]_vars

\* an item has failed and stays failed while another item is still running
C14_Witness ==
    \E i, j \in 1..N :
        /\ taskPc[i] = "done"
        /\ ~taskOut[i].success
        /\ funcCalls[i] = 1
        /\ taskPc[j] = "running"

\* slots of the semaphore of the running scrape_parallel call: free ones and
\* those taken by its bounded_scrapes
ParCapacity ==
    scrapeSem + Cardinality({t \in 1..targets : scPc[t] \in {"get", "op", "shot"}})

\* C15: a scrape that finds the queue empty starts waiting without any
\* instance being created; once the orchestrator has been started, every
\* waiting scrape eventually holds an instance; and a scrape_parallel call whose
\* semaphore has at least one slot eventually returns.
C15_BlockStep ==
    \A t \in Scrapes :
        (scPc'[t] = "get" /\ scPc[t] # "get") =>
            (instances' = instances /\ instance_pool' = <<>>)

C15_WaitingScrapeServed ==
    /\ [][C15_BlockStep]_vars
    /\ \A t \in Scrapes : (scPc[t] = "get" /\ calls.starts = 1) ~> (scPc[t] = "op")
    /\ (parPc = "running" /\ ParCapacity >= 1) ~> (parPc = "returned")

\* a direct scrape waits at the empty queue while the scrapes of a
\* scrape_parallel call hold every instance
C15_Witness ==
    /\ scPc[Direct] = "get"
    /\ calls.starts = 1
    /\ parPc = "running"
    /\ instance_pool = <<>>
    /\ Cardinality(BorrowingScrapes \ {Direct}) = num_instances

\* C16: once ManusCore.stop() has been called, no task is taken from the task
\* queue and started, no worker that has ended is started again by the health
\* monitor or the auto-heal daemon, and every worker eventually ends.
C16_StoppedStep ==
    corePc = "stopped" =>
        /\ tasksStarted' = tasksStarted
        /\ task_queue' >= task_queue
        /\ auto_heals' = auto_heals
        /\ \A w \in Workers : workerPc[w] \in {"none", "done"} => workerPc'[w] = workerPc[w]

C16_StopIsFinal ==
    /\ [][C16_StoppedStep]_vars
    /\ (corePc = "stopped") ~> (\A w \in Workers : workerPc[w] \in {"none", "done"})

\* stop() was called while a task was still queued; all workers have ended,
\* the monitor and the daemon have left their loops, the task is still queued
C16_Witness ==
    /\ corePc = "stopped"
    /\ task_queue >= 1
    /\ tasksStarted >= 1
    /\ \E w \in Workers : workerPc[w] = "done"
    /\ \A w \in Workers : workerPc[w] \in {"none", "done"}
    /\ monitorPc = "exited"
    /\ daemonPc = "exited"

\* C17: on a started pool of P healthy instances, never more than P scrapes
\* hold an instance at once; a scrape_parallel call made with P semaphore slots
\* over M >= P targets has, by the time it returns, seen exactly P instances
\* borrowed at once; and when no navigation failed its M results are successful
\* and in the order of the targets.
C17_PeakUsage ==
    /\ startPc = "started" => Cardinality(BorrowingScrapes) <= num_instances
    /\ (/\ parPc = "returned"
        /\ startPc = "started"
        /\ scrapeSem = num_instances
        /\ targets >= num_instances) => peak = num_instances
    /\ (parPc = "returned" /\ \A t \in 1..targets : ~navFails[t]) =>
          /\ Len(scrape_results) = targets
          /\ \A t \in 1..targets : scrape_results[t] = ScrapeResult(t, TRUE, FALSE)

\* a call over more targets than instances has returned all successes after
\* every instance was in use at once
C17_Witness ==
    /\ parPc = "returned"
    /\ startPc = "started"
    /\ scrapeSem = num_instances
    /\ targets > num_instances
    /\ peak = num_instances
    /\ \A t \in 1..targets : scrape_results[t].success

\* C18: in every state ManusCore's tasks_processed is tasks_succeeded +
\* tasks_failed and is the number of func executions that have returned or
\* raised, and HeadlessOrchestrator's total_scrapes is successful_scrapes +
\* failed_scrapes and is the number of scrape operations that have succeeded or
\* failed.
C18_CountersAgree ==
    /\ metrics.tasks_processed = metrics.tasks_succeeded + metrics.tasks_failed
    /\ metrics.tasks_processed = opsFinished
    /\ scrapeMetrics.total_scrapes
          = scrapeMetrics.successful_scrapes + scrapeMetrics.failed_scrapes
    /\ scrapeMetrics.total_scrapes = scrapesFinished

\* a success and a failure are counted while the failed scrape is still at its
\* screenshot and another scrape is under way
C18_Witness ==
    /\ scrapeMetrics.successful_scrapes >= 1
    /\ scrapeMetrics.failed_scrapes >= 1
    /\ \E t \in Scrapes : scPc[t] = "shot"
    /\ \E t \in Scrapes : scPc[t] = "op"

\* per run() call: the executions of the whole pipeline stay within max(1, max_retries)
\* with auto_retry, and are exactly one without it; run() never ends by raising
C19_Bounded ==
    /\ runOut \in {"none", "result"}
    /\ (runCalls > 0 /\ auto_retry) =>
           executions <= (IF max_retries < 1 THEN 1 ELSE max_retries)
    /\ (runCalls > 0 /\ ~auto_retry) => executions = 1
\* C19, for every max_retries including 0: run() always terminates and returns the
\* PipelineResult; with auto_retry enabled the whole pipeline is executed at most
\* max(1, max_retries) times per run() call, with auto_retry disabled exactly once
C19_RunTerminates == []C19_Bounded /\ ((Depth > 0) ~> (Depth = 0 /\ runOut = "result"))
\* the last allowed retry failed too and run() returned the result
C19_Witness ==
    /\ auto_retry /\ max_retries = 3 /\ executions = 3
    /\ errors >= 3 /\ runOut = "result" /\ resultStage <= NumStages
\* C19 as stated: with auto_retry enabled the whole pipeline is executed at most
\* max_retries times in total
C19_AtMostMaxRetries == (runCalls > 0 /\ auto_retry) => executions <= max_retries

\* C20: scraper.start() and manus_core.start() are called by a retry only on
\* components that _cleanup has stopped since the failed attempt
C20_StartStep ==
    /\ (TopPc = "initialize" /\ runPc' # runPc) => ~engineRunning
    /\ (TopPc = "scraper_start" /\ runPc' # runPc) => ~scraperRunning
C20_RetryStartsAfterCleanup == [][C20_StartStep]_vars

\* result.stage changes by one stage forward, or back to INITIALIZATION when an
\* attempt begins
C21_StageStep ==
    resultStage' # resultStage =>
        \/ resultStage' = resultStage + 1
        \/ resultStage' = 0 /\ TopPc = "initialize"
\* the returned result is COMPLETE with end_time set exactly when the last
\* attempt did not raise, and every run() frame has gone through _cleanup
C21_Returned ==
    runOut = "result" =>
        /\ (resultStage = NumStages + 1 /\ end_time) <=> ~attemptRaised
        /\ cleanups = executions
\* C21: within one attempt of run() result.stage moves forward one stage at a time
\* from INITIALIZATION to COMPLETE; the returned result is COMPLETE with end_time
\* set exactly when the last attempt raised no exception; _cleanup runs on every
\* exit path
C21_StagesInOrder == [][C21_StageStep]_vars /\ []C21_Returned
\* a run() whose first attempt failed and whose retry completed
C21_Witness ==
    /\ runOut = "result" /\ executions = 2 /\ cleanups = 2
    /\ resultStage = NumStages + 1 /\ end_time /\ ~attemptRaised

\* C22: the returned PipelineResult has
\* leads_stored <= leads_analyzed <= leads_validated <= leads_scraped
C22_CountersOrdered ==
    runOut = "result" =>
        /\ leads_stored <= leads_analyzed
        /\ leads_analyzed <= leads_validated
        /\ leads_validated <= leads_scraped

\* C23: final_verdict is 'VALID' exactly when the three checks pass; a lead is
\* retained exactly when passed / 3 * 100 >= threshold * 100; the cross-reference
\* and external checks always pass, so under the default threshold a lead is
\* retained exactly when it has the keys id, source and contact_info
C23_ValidatorVerdict ==
    validation # NoValidation =>
        /\ validation.final_verdict = "VALID" <=>
               \A i \in 1..3 : validation.validations[i]
        /\ validation.validations[2] /\ validation.validations[3]
        /\ validation.kept # "untested" =>
               /\ validation.kept = "kept" <=>
                      Cardinality({i \in 1..3 : validation.validations[i]}) * 100
                          >= validation.threshold * 3
               /\ validation.threshold = default_threshold =>
                      (validation.kept = "kept" <=>
                           {"id", "source", "contact_info"} \subseteq validation.fields)
\* a lead without contact_info was dropped and then a complete lead was kept,
\* both under the default threshold
C23_Witness ==
    /\ validation_history = 2
    /\ validation # NoValidation
    /\ validation.kept = "kept"
    /\ validation.threshold = default_threshold
    /\ validation.fields = {"id", "source", "contact_info"}
    /\ validation.final_verdict = "VALID"

\* C24: under the default PipelineConfig the validation stage retains every lead
\* the scraping stage built: leads_validated = leads_scraped
C24_AllLeadsRetained ==
    (/\ triple_check_enabled
     /\ min_confidence_threshold = default_threshold
     /\ TopPc = "stage"
     /\ resultStage = 3) => leads_validated = leads_scraped

\* C25: between set_local_status(False) and the next set_local_status(True),
\* route() never returns 'local': it returns 'cloud' when cloud is available and
\* raises RuntimeError otherwise, however much time has passed
C25_RouteStep ==
    (Route /\ localDown) =>
        routeOut' = (IF cloud_available THEN "cloud" ELSE "raised")
C25_DownStaysDown == [][C25_RouteStep]_vars

\* C26: determine_target returns only a target whose check succeeded in the same
\* call, prefers the configured primary when it is available, falls back from
\* local to CLOUD only with cloud_fallback, and when no target qualifies raises
\* RuntimeError and leaves _current_target as it was
C26_DetermineTarget ==
    determined.out \in {"LOCAL", "CLOUD", "raised"} =>
        /\ determined.out = "LOCAL" => determined.local_ok /\ current_target = "LOCAL"
        /\ determined.out = "CLOUD" => determined.cloud_ok /\ current_target = "CLOUD"
        /\ (hybridConfig.local_primary /\ determined.local_ok) => determined.out = "LOCAL"
        /\ (~hybridConfig.local_primary /\ determined.cloud_ok) => determined.out = "CLOUD"
        /\ (hybridConfig.local_primary /\ determined.out = "CLOUD") =>
               hybridConfig.cloud_fallback
        /\ determined.out = "raised" =>
               /\ current_target = determined.before
               /\ ~determined.local_ok
               /\ ~determined.cloud_ok \/ (hybridConfig.local_primary
                                            /\ ~hybridConfig.cloud_fallback)
\* local is primary and down, cloud is up but cloud_fallback is off: the call
\* raised and the target of the call before stays
C26_Witness ==
    /\ determined.out = "raised"
    /\ determined.cloud_ok
    /\ hybridConfig.local_primary /\ ~hybridConfig.cloud_fallback
    /\ determined.calls = 2
    /\ current_target = "LOCAL"

\* C27: while the engine runs, a worker task that has ended is eventually
\* replaced by a running worker, whatever fraction of the workers is active
C27_DeadWorkerReplaced ==
    \A w \in Workers :
        (coreRunning /\ workerPc[w] = "done") ~>
            (~coreRunning \/ workerPc[w] \in {"idle", "busy"})

\* C28: len(self._workers) never exceeds min(max_parallel_instances, 100)
C28_WorkersBounded ==
    core_instances # None => TotalWorkers(workerPc) <= WorkerCount(core_instances)

\* C29: a call of the auto_heal wrapper invokes func at most retries times and
\* never again after an invocation that did not raise RequestException; it
\* sleeps delay*2^i after the failed attempt i (i from 0) and at no other time;
\* it returns the value of the successful invocation, or None when all
\* retries invocations have failed
C29_AutoHealRetries ==
    /\ Len(healOutcomes) <= heal_retries
    /\ \A k \in 1..(Len(healOutcomes) - 1) : healOutcomes[k].kind = "fail"
    /\ \A k \in 1..Len(healSlept) :
           /\ healSlept[k] = heal_delay * (2 ^ (k - 1))
           /\ healOutcomes[k].kind = "fail"
    /\ healPc \in {"loop", "returned"} =>
           Len(healSlept) = Cardinality({k \in 1..Len(healOutcomes) : healOutcomes[k].kind = "fail"})
    /\ healPc = "returned" =>
           IF healOutcomes # <<>> /\ healOutcomes[Len(healOutcomes)].kind = "ok"
           THEN healOut = healOutcomes[Len(healOutcomes)].value
           ELSE healOut = None /\ Len(healOutcomes) = heal_retries

\* the third invocation succeeds after two failures and two sleeps
C29_Witness ==
    /\ healPc = "returned"
    /\ heal_retries = 3
    /\ heal_delay = default_delay
    /\ Len(healOutcomes) = 3
    /\ healOutcomes[3].kind = "ok"
    /\ healOut = healOutcomes[3].value
    /\ healSlept = <<5, 10>>

\* C30: a call of fetch_page makes at most retries requests and none after a
\* successful one, whose text it returns; it sleeps backoff_factor*2^attempt
\* between two attempts and not after the last one; it returns None after
\* retries failed requests
C30_FetchRetries ==
    /\ Len(fetchOutcomes) <= fetch_retries
    /\ \A k \in 1..(Len(fetchOutcomes) - 1) : fetchOutcomes[k].kind = "fail"
    /\ \A k \in 1..Len(fetchSlept) :
           /\ fetchSlept[k] = backoff_factor * (2 ^ (k - 1))
           /\ fetchOutcomes[k].kind = "fail"
    /\ fetchPc = "loop" => Len(fetchSlept) = Len(fetchOutcomes)
    /\ fetchPc \in {"returned", "raised"} /\ fetchOutcomes # <<>> =>
           Len(fetchSlept) = Len(fetchOutcomes) - 1
    /\ fetchPc = "returned" =>
           IF fetchOutcomes # <<>> /\ fetchOutcomes[Len(fetchOutcomes)].kind = "ok"
           THEN fetchOut = fetchOutcomes[Len(fetchOutcomes)].value
           ELSE fetchOut = None /\ Len(fetchOutcomes) = fetch_retries

\* three failed requests: two sleeps, none after the last, and None returned
C30_Witness ==
    /\ fetchPc = "returned"
    /\ fetch_retries = 3
    /\ backoff_factor = default_backoff
    /\ Len(fetchOutcomes) = 3
    /\ \A k \in 1..3 : fetchOutcomes[k].kind = "fail"
    /\ fetchSlept = <<5, 10>>
    /\ fetchOut = None

====
